---- MODULE Spec2Model ----
(***************************************************************************)
(* Lattice stratification and polytope-geometry engine of toric-scope:     *)
(* the convex hull kernel (utils/convexHull.ts), the stratification        *)
(* builder (utils/stratification.ts), the stratum registry                 *)
(* (types/stratum.ts), and the parts of the canvas that use them: the      *)
(* selection and its interior-removal effect, the section investigator's   *)
(* highlighted edges and multiplicities (components/LatticeCanvas.tsx),    *)
(* the stratum under a pointer position (hooks/useRingsHandlers.ts) and    *)
(* the statistics (buildPolytopeAttributes).                               *)
(*                                                                         *)
(* A JavaScript object of type Point is modelled as a record               *)
(* [x, y, id]: x and y are its integer coordinates and id is the object's  *)
(* identity, which the code observes through `p !== anchor`.  Strings are  *)
(* modelled as sequences of one-character strings, so that the template    *)
(* literals building keys and ids are computed, not assumed injective.     *)
(***************************************************************************)
EXTENDS Integers, Sequences, FiniteSets, TLC

(* pc: the caller's position ("input" while it builds its array).         *)
(* selectedPoints, visibleLatticePoints: the arguments of the builder;     *)
(* selectedPoints is also the argument of convexHull.                      *)
(* hull: the array convexHull returned for selectedPoints.                 *)
(* registry: the StratumRegistry the builder returned.                     *)
(* edgeIdCalls: the calls of edgeId made, with the ids returned.           *)
(* geometryCall: the call made of computePrimitiveNormal, of               *)
(* calculateEdgeMultiplicity, of findStratumAtPosition or of               *)
(* buildPolytopeAttributes, with the value returned, or the point selected *)
(* for investigation with the highlighted edges and their multiplicities;  *)
(* <<>> before it.                                                         *)
(* heap: the objects allocated by the calls of the builder that are kept   *)
(* by reference, in allocation order (an object's address is its index).   *)
(* results: the references to the registries those calls returned.         *)
(* selection: the Set<string> selectedPoints of the canvas, as the         *)
(* sequence of its keys in insertion order.                                *)
VARIABLES pc, selectedPoints, visibleLatticePoints, hull, registry, edgeIdCalls,
          geometryCall, heap, results, selection

vars == <<pc, selectedPoints, visibleLatticePoints, hull, registry, edgeIdCalls, geometryCall,
          heap, results, selection>>

(* Bounds of the model *)
MaxCoord == 2
MaxPts == 4

Coords == 0..MaxCoord

(* ---------------------------------------------------------------------- *)
(* utils/convexHull.ts                                                     *)
(* ---------------------------------------------------------------------- *)

Point(px, py) == [x |-> px, y |-> py]

Obj(px, py, i) == [x |-> px, y |-> py, id |-> i]

SamePoint(p, q) == p.x = q.x /\ p.y = q.y

crossProduct(O, A, B) == (A.x - O.x) * (B.y - O.y) - (A.y - O.y) * (B.x - O.x)

(* Squared Euclidean distance: distance() is its square root, and the      *)
(* comparator only uses the sign of a difference of two distances.         *)
distance2(p1, p2) == (p1.x - p2.x) * (p1.x - p2.x) + (p1.y - p2.y) * (p1.y - p2.y)

(* Sign of polarAngle(anchor, a) - polarAngle(anchor, b) for points that   *)
(* are not below the anchor (the anchor has the least y, then the least    *)
(* x), so both angles are in [0, pi): the sign of the cross product of the *)
(* two directions.  A point equal to the anchor has the direction of the   *)
(* positive x axis, because atan2(0, 0) = 0.  For lattice points of the    *)
(* bounded window two different angles differ by far more than the         *)
(* tolerance 1e-10, and equal directions give angles closer than that.     *)
angleSign(anchor, a, b) ==
  LET ax == IF a.x = anchor.x /\ a.y = anchor.y THEN 1 ELSE a.x - anchor.x
      bx == IF b.x = anchor.x /\ b.y = anchor.y THEN 1 ELSE b.x - anchor.x
      c  == ax * (b.y - anchor.y) - (a.y - anchor.y) * bx
  IN  IF c > 0 THEN -1 ELSE IF c < 0 THEN 1 ELSE 0

(* Mutant: equal angles are ordered by decreasing distance. *)
compareFarFirst(anchor, a, b) ==
  LET s == angleSign(anchor, a, b)
  IN  IF s = 0 THEN distance2(anchor, b) - distance2(anchor, a) ELSE s

(* The comparator passed to sort(): negative, zero or positive.            *)
compareByAngle(anchor, a, b) ==
  LET s == angleSign(anchor, a, b)
  IN  IF s = 0 THEN distance2(anchor, a) - distance2(anchor, b) ELSE s

(* Mutant: the anchor is chosen by its y alone, ties not broken by x. *)
RECURSIVE findAnchorNoTieBreak(_, _, _)
findAnchorNoTieBreak(points, i, anchor) ==
  IF i > Len(points) THEN anchor
  ELSE LET point == points[i]
       IN  IF point.y < anchor.y
           THEN findAnchorNoTieBreak(points, i + 1, point)
           ELSE findAnchorNoTieBreak(points, i + 1, anchor)

(* The anchor: the first element that is least by (y, x).                  *)
RECURSIVE findAnchor(_, _, _)
findAnchor(points, i, anchor) ==
  IF i > Len(points) THEN anchor
  ELSE LET point == points[i]
       IN  IF point.y < anchor.y \/ (point.y = anchor.y /\ point.x < anchor.x)
           THEN findAnchor(points, i + 1, point)
           ELSE findAnchor(points, i + 1, anchor)

filterNotAnchor(points, anchor) == SelectSeq(points, LAMBDA p : p.id # anchor.id)

(* Array.prototype.sort is stable: an element goes after every element     *)
(* that does not compare greater than it.                                  *)
RECURSIVE insertSorted(_, _, _)
insertSorted(anchor, sorted, p) ==
  IF sorted = <<>> THEN <<p>>
  ELSE IF compareByAngle(anchor, sorted[Len(sorted)], p) <= 0
       THEN Append(sorted, p)
       ELSE Append(insertSorted(anchor, SubSeq(sorted, 1, Len(sorted) - 1), p),
                   sorted[Len(sorted)])

RECURSIVE sortByAngle(_, _)
sortByAngle(anchor, points) ==
  IF points = <<>> THEN <<>>
  ELSE insertSorted(anchor,
                    sortByAngle(anchor, SubSeq(points, 1, Len(points) - 1)),
                    points[Len(points)])

(* Mutant: the scan pops only on a strict right turn, keeping collinear    *)
(* points.                                                                 *)
RECURSIVE popWhileRight(_, _)
popWhileRight(h, point) ==
  IF Len(h) >= 2 /\ crossProduct(h[Len(h) - 1], h[Len(h)], point) < 0
  THEN popWhileRight(SubSeq(h, 1, Len(h) - 1), point)
  ELSE h

(* The inner while loop of the scan. *)
RECURSIVE popWhileNotLeft(_, _)
popWhileNotLeft(h, point) ==
  IF Len(h) >= 2 /\ crossProduct(h[Len(h) - 1], h[Len(h)], point) <= 0
  THEN popWhileNotLeft(SubSeq(h, 1, Len(h) - 1), point)
  ELSE h

(* Mutant: the scan pushes every point and never pops. *)
RECURSIVE scanWithoutPop(_, _, _)
scanWithoutPop(h, sorted, i) ==
  IF i > Len(sorted) THEN h
  ELSE scanWithoutPop(Append(h, sorted[i]), sorted, i + 1)

RECURSIVE grahamScan(_, _, _)
grahamScan(h, sorted, i) ==
  IF i > Len(sorted) THEN h
  ELSE grahamScan(Append(popWhileNotLeft(h, sorted[i]), sorted[i]), sorted, i + 1)

(* Mutant: the scan starts from an empty hull instead of [anchor]. *)
convexHullUnseeded(points) ==
  IF Len(points) < 3 THEN points
  ELSE LET anchor == findAnchor(points, 1, points[1])
           sorted == sortByAngle(anchor, filterNotAnchor(points, anchor))
       IN  grahamScan(<<>>, sorted, 1)

convexHull(points) ==
  IF Len(points) < 3 THEN points
  ELSE LET anchor == findAnchor(points, 1, points[1])
           sorted == sortByAngle(anchor, filterNotAnchor(points, anchor))
       IN  grahamScan(<<anchor>>, sorted, 1)

(* Mutant: points on the boundary count as inside. *)
isPointInsideNotStrict(point, polygon) ==
  IF Len(polygon) < 3 THEN FALSE
  ELSE \A i \in 1..Len(polygon) :
         crossProduct(polygon[i], polygon[(i % Len(polygon)) + 1], point) >= 0

isPointInsidePolygon(point, polygon) ==
  IF Len(polygon) < 3 THEN FALSE
  ELSE \A i \in 1..Len(polygon) :
         crossProduct(polygon[i], polygon[(i % Len(polygon)) + 1], point) > 0

abs(a) == IF a < 0 THEN -a ELSE a

(* The local gcd closure, after its two Math.abs assignments. *)
RECURSIVE gcdLoop(_, _)
gcdLoop(a, b) == IF b # 0 THEN gcdLoop(b, a % b) ELSE a

gcd(a, b) == gcdLoop(abs(a), abs(b))

(* Mutant: the far endpoint is generated too. *)
latticePointsWithEndpoint(p1, p2) ==
  LET dx == p2.x - p1.x
      dy == p2.y - p1.y
      g  == gcd(dx, dy)
  IN  IF g = 0 THEN <<>>
      ELSE LET stepX == dx \div g
               stepY == dy \div g
           IN  [i \in 1..g |-> [x |-> p1.x + i * stepX, y |-> p1.y + i * stepY]]

latticePointsOnSegment(p1, p2) ==
  LET dx == p2.x - p1.x
      dy == p2.y - p1.y
      g  == gcd(dx, dy)
  IN  IF g = 0 THEN <<>>
      ELSE LET stepX == dx \div g
               stepY == dy \div g
           IN  [i \in 1..(g - 1) |-> [x |-> p1.x + i * stepX, y |-> p1.y + i * stepY]]

(* Mutant: the loop over the edges stops before the closing edge. *)
RECURSIVE edgePointsOpenChain(_, _)
edgePointsOpenChain(polygon, i) ==
  IF i > Len(polygon) - 1 THEN <<>>
  ELSE latticePointsOnSegment(polygon[i], polygon[(i % Len(polygon)) + 1])
         \o edgePointsOpenChain(polygon, i + 1)

RECURSIVE edgePointsFrom(_, _)
edgePointsFrom(polygon, i) ==
  IF i > Len(polygon) THEN <<>>
  ELSE latticePointsOnSegment(polygon[i], polygon[(i % Len(polygon)) + 1])
         \o edgePointsFrom(polygon, i + 1)

(* Mutant: only the first edge of the polygon is walked. *)
edgePointsOfFirstEdge(polygon) ==
  IF Len(polygon) < 2 THEN <<>> ELSE latticePointsOnSegment(polygon[1], polygon[2])

edgePointsOfPolygon(polygon) ==
  IF Len(polygon) < 2 THEN <<>> ELSE edgePointsFrom(polygon, 1)

(* ---------------------------------------------------------------------- *)
(* utils/stratification.ts                                                 *)
(* ---------------------------------------------------------------------- *)

Range(s) == {s[i] : i \in DOMAIN s}

DigitChars == <<"0", "1", "2", "3", "4", "5", "6", "7", "8", "9">>

(* Number-to-string conversion of a template literal, for an integer. *)
RECURSIVE natToString(_)
natToString(n) ==
  IF n < 10 THEN <<DigitChars[n + 1]>>
  ELSE Append(natToString(n \div 10), DigitChars[(n % 10) + 1])

numberToString(n) == IF n < 0 THEN <<"-">> \o natToString(-n) ELSE natToString(n)

pointKey(x, y) == numberToString(x) \o <<",">> \o numberToString(y)

vertexId(point) == <<"v", "_">> \o pointKey(point.x, point.y)

(* Mutant: the endpoints are written in the order given. *)
edgeIdAsGiven(v1, v2) ==
  <<"e", "_">> \o pointKey(v1.x, v1.y) \o <<"_">> \o pointKey(v2.x, v2.y)

edgeId(v1, v2) ==
  LET first == v1.x < v2.x \/ (v1.x = v2.x /\ v1.y < v2.y)
      p1 == IF first THEN v1 ELSE v2
      p2 == IF first THEN v2 ELSE v1
  IN  <<"e", "_">> \o pointKey(p1.x, p1.y) \o <<"_">> \o pointKey(p2.x, p2.y)

(* Mutant: the normal is taken of the endpoints in the order of the edge   *)
(* id, not in the order given.                                             *)
computeNormalInIdOrder(v1, v2) ==
  LET first == v1.x < v2.x \/ (v1.x = v2.x /\ v1.y < v2.y)
      p1 == IF first THEN v1 ELSE v2
      p2 == IF first THEN v2 ELSE v1
      nx == p2.y - p1.y
      ny == -(p2.x - p1.x)
      g  == gcd(nx, ny)
  IN  IF g = 0 THEN [x |-> 0, y |-> 0]
      ELSE [x |-> nx \div g, y |-> ny \div g]

(* Mutant: the normal is not divided by the gcd. *)
computeNormalUndivided(v1, v2) ==
  [x |-> v2.y - v1.y, y |-> -(v2.x - v1.x)]

computePrimitiveNormal(v1, v2) ==
  LET nx == v2.y - v1.y
      ny == -(v2.x - v1.x)
      g  == gcd(nx, ny)
  IN  IF g = 0 THEN [x |-> 0, y |-> 0]
      ELSE [x |-> nx \div g, y |-> ny \div g]

isPointOnSegment(point, v1, v2) ==
  LET cross == (v2.y - v1.y) * (point.x - v1.x) - (v2.x - v1.x) * (point.y - v1.y)
      dotProduct == (point.x - v1.x) * (v2.x - v1.x) + (point.y - v1.y) * (v2.y - v1.y)
      squaredLength == (v2.x - v1.x) * (v2.x - v1.x) + (v2.y - v1.y) * (v2.y - v1.y)
  IN  IF abs(cross) > 0 THEN FALSE
      ELSE dotProduct >= 0 /\ dotProduct <= squaredLength

(* A Map<string, Stratum> under construction: the sequence, in insertion   *)
(* order of the keys, of the indices of the stratum objects it holds;      *)
(* objs is the array of the objects (vertexStrata, edgeStrata).  Map.set   *)
(* on a key already present replaces the value and keeps the position.     *)
mapSet(m, objs, idx) ==
  IF \E k \in 1..Len(m) : objs[m[k]].id = objs[idx].id
  THEN [k \in 1..Len(m) |-> IF objs[m[k]].id = objs[idx].id THEN idx ELSE m[k]]
  ELSE Append(m, idx)

(* Map.get: the index of the object stored under id, 0 for undefined. *)
mapGet(m, objs, id) ==
  IF \E k \in 1..Len(m) : objs[m[k]].id = id
  THEN m[CHOOSE k \in 1..Len(m) : objs[m[k]].id = id]
  ELSE 0

RECURSIVE mapSetAll(_, _, _)
mapSetAll(m, objs, i) ==
  IF i > Len(objs) THEN m ELSE mapSetAll(mapSet(m, objs, i), objs, i + 1)

FaceId == <<"f", "_", "0">>

(* Step 1: one VertexStratum object per hull point. *)
(* Mutant: the vertex is not entered as its own monomial. *)
newVertexStratumNoMonomial(point) ==
  [id |-> vertexId(point), dimension |-> 0, point |-> point,
   vertexMonomials |-> {},
   edgeMonomials |-> {}, interiorMonomials |-> {},
   substrata |-> {}, superstrata |-> {}]

newVertexStratum(point) ==
  [id |-> vertexId(point), dimension |-> 0, point |-> point,
   vertexMonomials |-> {pointKey(point.x, point.y)},
   edgeMonomials |-> {}, interiorMonomials |-> {},
   substrata |-> {}, superstrata |-> {}]

(* Mutant: the edge lists only its first endpoint as a substratum. *)
newEdgeStratumOneEnd(v1, v2) ==
  [id |-> edgeId(v1, v2), dimension |-> 1,
   vertices |-> <<vertexId(v1), vertexId(v2)>>,
   primitiveNormal |-> computePrimitiveNormal(v1, v2),
   vertexMonomials |-> {pointKey(v1.x, v1.y), pointKey(v2.x, v2.y)},
   edgeMonomials |-> {}, interiorMonomials |-> {},
   substrata |-> {vertexId(v1)}, superstrata |-> {}]

newEdgeStratum(v1, v2) ==
  [id |-> edgeId(v1, v2), dimension |-> 1,
   vertices |-> <<vertexId(v1), vertexId(v2)>>,
   primitiveNormal |-> computePrimitiveNormal(v1, v2),
   vertexMonomials |-> {pointKey(v1.x, v1.y), pointKey(v2.x, v2.y)},
   edgeMonomials |-> {}, interiorMonomials |-> {},
   substrata |-> {vertexId(v1), vertexId(v2)}, superstrata |-> {}]

(* Mutant: the id is added to the substrata of the object. *)
addToSubstrata(objs, idx, id) ==
  IF idx = 0 THEN objs
  ELSE [objs EXCEPT ![idx].substrata = @ \cup {id}]

addSuperstratum(objs, idx, id) ==
  IF idx = 0 THEN objs
  ELSE [objs EXCEPT ![idx].superstrata = @ \cup {id}]

(* Mutant: the loop over the hull pairs stops before the closing pair. *)
RECURSIVE createEdgesNoWrap(_, _, _, _)
createEdgesNoWrap(h, vmap, st, i) ==
  IF i > Len(h) - 1 THEN st
  ELSE LET v1 == h[i]
           v2 == h[(i % Len(h)) + 1]
           edge == newEdgeStratum(v1, v2)
           vs1 == addSuperstratum(st.vs, mapGet(vmap, st.vs, vertexId(v1)), edge.id)
           vs2 == addSuperstratum(vs1, mapGet(vmap, vs1, vertexId(v2)), edge.id)
           es2 == Append(st.es, edge)
       IN  createEdgesNoWrap(h, vmap,
                       [vs |-> vs2, es |-> es2, emap |-> mapSet(st.emap, es2, Len(es2))],
                       i + 1)

(* Step 2: the loop over the hull's consecutive pairs.  st holds the       *)
(* vertexStrata objects vs, the edgeStrata objects es and registry.edges   *)
(* emap; vmap is registry.vertices.                                        *)
RECURSIVE createEdges(_, _, _, _)
createEdges(h, vmap, st, i) ==
  IF i > Len(h) THEN st
  ELSE LET v1 == h[i]
           v2 == h[(i % Len(h)) + 1]
           edge == newEdgeStratum(v1, v2)
           vs1 == addSuperstratum(st.vs, mapGet(vmap, st.vs, vertexId(v1)), edge.id)
           vs2 == addSuperstratum(vs1, mapGet(vmap, vs1, vertexId(v2)), edge.id)
           es2 == Append(st.es, edge)
       IN  createEdges(h, vmap,
                       [vs |-> vs2, es |-> es2, emap |-> mapSet(st.emap, es2, Len(es2))],
                       i + 1)

(* Step 3, for one edge point: the first hull pair whose segment holds it. *)
edgeOfPoint(h, point) ==
  IF \E i \in 1..Len(h) : isPointOnSegment(point, h[i], h[(i % Len(h)) + 1])
  THEN LET S == {i \in 1..Len(h) : isPointOnSegment(point, h[i], h[(i % Len(h)) + 1])}
       IN  CHOOSE i \in S : \A j \in S : i <= j
  ELSE 0

(* Mutant: only the first edge point is assigned to an edge. *)
assignFirstEdgeMonomial(h, emap, es, pts, k) ==
  IF k > Len(pts) THEN es
  ELSE LET point == pts[k]
           i == edgeOfPoint(h, point)
           idx == IF i = 0 THEN 0
                  ELSE mapGet(emap, es, edgeId(h[i], h[(i % Len(h)) + 1]))
       IN  IF idx = 0 THEN es
           ELSE [es EXCEPT ![idx].edgeMonomials = @ \cup {pointKey(point.x, point.y)}]

RECURSIVE assignEdgeMonomials(_, _, _, _, _)
assignEdgeMonomials(h, emap, es, pts, k) ==
  IF k > Len(pts) THEN es
  ELSE LET point == pts[k]
           i == edgeOfPoint(h, point)
           idx == IF i = 0 THEN 0
                  ELSE mapGet(emap, es, edgeId(h[i], h[(i % Len(h)) + 1]))
           es2 == IF idx = 0 THEN es
                  ELSE [es EXCEPT ![idx].edgeMonomials = @ \cup {pointKey(point.x, point.y)}]
       IN  assignEdgeMonomials(h, emap, es2, pts, k + 1)

EmptyRegistry == [vertices |-> <<>>, edges |-> <<>>, faces |-> <<>>]

(* Steps 1 to 5 of createStratificationFromPolytope, for its hull h. *)
buildStrata(h, visiblePoints) ==
  LET vertexStrata == [i \in 1..Len(h) |-> newVertexStratum(h[i])]
      vmap == mapSetAll(<<>>, vertexStrata, 1)
      st2 == createEdges(h, vmap, [vs |-> vertexStrata, es |-> <<>>, emap |-> <<>>], 1)
      edgeMonomialPoints == edgePointsOfPolygon(h)
      es3 == assignEdgeMonomials(h, st2.emap, st2.es, edgeMonomialPoints, 1)
      (* Step 4 *)
      es4 == [i \in 1..Len(es3) |-> [es3[i] EXCEPT !.superstrata = @ \cup {FaceId}]]
      vs4 == [i \in 1..Len(st2.vs) |-> [st2.vs[i] EXCEPT !.superstrata = @ \cup {FaceId}]]
      face == [id |-> FaceId, dimension |-> 2,
               hullVertices |-> [i \in 1..Len(h) |-> vertexId(h[i])],
               vertexMonomials |-> {pointKey(p.x, p.y) : p \in Range(h)},
               edgeMonomials |-> {pointKey(p.x, p.y) : p \in Range(edgeMonomialPoints)},
               (* Step 5 *)
               interiorMonomials |->
                 {pointKey(p.x, p.y) : p \in {q \in visiblePoints : isPointInsidePolygon(q, h)}},
               substrata |-> {es3[i].id : i \in 1..Len(es3)},
               superstrata |-> {}]
  IN  [vertices |-> [k \in 1..Len(vmap) |-> vs4[vmap[k]]],
       edges |-> [k \in 1..Len(st2.emap) |-> es4[st2.emap[k]]],
       faces |-> <<face>>]

(* Mutant: both length guards accept two points. *)
createStratificationMinTwo(selPoints, visiblePoints) ==
  IF Len(selPoints) < 2 THEN EmptyRegistry
  ELSE LET h == convexHull(selPoints)
       IN  IF Len(h) < 2 THEN EmptyRegistry
           ELSE buildStrata(h, visiblePoints)

createStratificationFromPolytope(selPoints, visiblePoints) ==
  IF Len(selPoints) < 3 THEN EmptyRegistry
  ELSE LET h == convexHull(selPoints)
       IN  IF Len(h) < 3 THEN EmptyRegistry
           ELSE buildStrata(h, visiblePoints)

enumerateLatticePoints(minX, maxX, minY, maxY) ==
  {[x |-> px, y |-> py] : px \in minX..maxX, py \in minY..maxY}

(* ---------------------------------------------------------------------- *)
(* types/stratum.ts: StratumRegistry                                       *)
(* ---------------------------------------------------------------------- *)

getAllVertices(r) == r.vertices

getAllEdges(r) == r.edges

getAllFaces(r) == r.faces

getTotalCount(r) == Len(r.vertices) + Len(r.edges) + Len(r.faces)

(* The value undefined. *)
Undefined == [undefined |-> TRUE]

(* Map.get on a Map of strata given by its values in insertion order. *)
mapLookup(strata, id) ==
  IF \E i \in 1..Len(strata) : strata[i].id = id
  THEN strata[CHOOSE i \in 1..Len(strata) : strata[i].id = id]
  ELSE Undefined

getVertex(r, id) == mapLookup(r.vertices, id)

(* Mutant: only the vertices are searched. *)
getStratumAmongVertices(r, id) == mapLookup(r.vertices, id)

getStratum(r, id) ==
  LET v == mapLookup(r.vertices, id)
      e == mapLookup(r.edges, id)
  IN  IF v # Undefined THEN v
      ELSE IF e # Undefined THEN e
      ELSE mapLookup(r.faces, id)

(* Array.from(set): the elements of the set, each once.  The model keeps   *)
(* a Set<string> as a set, without its insertion order; the array lists    *)
(* the elements in a fixed order.                                          *)
RECURSIVE arrayFrom(_)
arrayFrom(S) ==
  IF S = {} THEN <<>>
  ELSE LET x == CHOOSE x \in S : TRUE
       IN  <<x>> \o arrayFrom(S \ {x})

(* Mutant: the unresolved ids are not filtered out. *)
resolveAllUnfiltered(r, ids) == [i \in 1..Len(ids) |-> getStratum(r, ids[i])]

(* ids.map(id => this.getStratum(id)).filter(s => s !== undefined) *)
resolveAll(r, ids) ==
  SelectSeq([i \in 1..Len(ids) |-> getStratum(r, ids[i])], LAMBDA st : st # Undefined)

getSubstrata(r, stratumId) ==
  LET stratum == getStratum(r, stratumId)
  IN  IF stratum = Undefined THEN <<>>
      ELSE resolveAll(r, arrayFrom(stratum.substrata))

getSuperstrata(r, stratumId) ==
  LET stratum == getStratum(r, stratumId)
  IN  IF stratum = Undefined THEN <<>>
      ELSE resolveAll(r, arrayFrom(stratum.superstrata))

(* serializeStratum: the Sets become arrays; the payload is chosen by the  *)
(* type guards, which test the dimension.                                  *)
serializeStratum(stratum) ==
  IF stratum.dimension = 0
  THEN [id |-> stratum.id, dimension |-> 0,
        vertexMonomials |-> arrayFrom(stratum.vertexMonomials),
        edgeMonomials |-> arrayFrom(stratum.edgeMonomials),
        interiorMonomials |-> arrayFrom(stratum.interiorMonomials),
        substrata |-> arrayFrom(stratum.substrata),
        superstrata |-> arrayFrom(stratum.superstrata),
        point |-> stratum.point]
  ELSE IF stratum.dimension = 1
  THEN [id |-> stratum.id, dimension |-> 1,
        vertexMonomials |-> arrayFrom(stratum.vertexMonomials),
        edgeMonomials |-> arrayFrom(stratum.edgeMonomials),
        interiorMonomials |-> arrayFrom(stratum.interiorMonomials),
        substrata |-> arrayFrom(stratum.substrata),
        superstrata |-> arrayFrom(stratum.superstrata),
        vertices |-> stratum.vertices,
        primitiveNormal |-> stratum.primitiveNormal]
  ELSE [id |-> stratum.id, dimension |-> 2,
        vertexMonomials |-> arrayFrom(stratum.vertexMonomials),
        edgeMonomials |-> arrayFrom(stratum.edgeMonomials),
        interiorMonomials |-> arrayFrom(stratum.interiorMonomials),
        substrata |-> arrayFrom(stratum.substrata),
        superstrata |-> arrayFrom(stratum.superstrata),
        hullVertices |-> stratum.hullVertices]

deserializeVertexStratum(data) ==
  [id |-> data.id, dimension |-> 0, point |-> data.point,
   vertexMonomials |-> Range(data.vertexMonomials),
   edgeMonomials |-> Range(data.edgeMonomials),
   interiorMonomials |-> Range(data.interiorMonomials),
   substrata |-> Range(data.substrata),
   superstrata |-> Range(data.superstrata)]

(* Mutant: the two containment arrays are exchanged. *)
deserializeEdgeStratumExchanged(data) ==
  [id |-> data.id, dimension |-> 1,
   vertices |-> data.vertices, primitiveNormal |-> data.primitiveNormal,
   vertexMonomials |-> Range(data.vertexMonomials),
   edgeMonomials |-> Range(data.edgeMonomials),
   interiorMonomials |-> Range(data.interiorMonomials),
   substrata |-> Range(data.superstrata),
   superstrata |-> Range(data.substrata)]

deserializeEdgeStratum(data) ==
  [id |-> data.id, dimension |-> 1,
   vertices |-> data.vertices, primitiveNormal |-> data.primitiveNormal,
   vertexMonomials |-> Range(data.vertexMonomials),
   edgeMonomials |-> Range(data.edgeMonomials),
   interiorMonomials |-> Range(data.interiorMonomials),
   substrata |-> Range(data.substrata),
   superstrata |-> Range(data.superstrata)]

deserializeFaceStratum(data) ==
  [id |-> data.id, dimension |-> 2, hullVertices |-> data.hullVertices,
   vertexMonomials |-> Range(data.vertexMonomials),
   edgeMonomials |-> Range(data.edgeMonomials),
   interiorMonomials |-> Range(data.interiorMonomials),
   substrata |-> Range(data.substrata),
   superstrata |-> Range(data.superstrata)]

(* addVertex / addEdge / addFace on the values of a Map in insertion       *)
(* order: Map.set replaces the value of a key already present.             *)
addStratum(strata, st) ==
  IF \E i \in 1..Len(strata) : strata[i].id = st.id
  THEN [i \in 1..Len(strata) |-> IF strata[i].id = st.id THEN st ELSE strata[i]]
  ELSE Append(strata, st)

RECURSIVE addAll(_, _, _)
addAll(strata, sts, i) ==
  IF i > Len(sts) THEN strata ELSE addAll(addStratum(strata, sts[i]), sts, i + 1)

toJSON(r) ==
  [vertices |-> [i \in 1..Len(r.vertices) |-> serializeStratum(r.vertices[i])],
   edges |-> [i \in 1..Len(r.edges) |-> serializeStratum(r.edges[i])],
   faces |-> [i \in 1..Len(r.faces) |-> serializeStratum(r.faces[i])]]

fromJSON(data) ==
  [vertices |-> addAll(<<>>, [i \in 1..Len(data.vertices) |->
                                deserializeVertexStratum(data.vertices[i])], 1),
   edges |-> addAll(<<>>, [i \in 1..Len(data.edges) |->
                             deserializeEdgeStratum(data.edges[i])], 1),
   faces |-> addAll(<<>>, [i \in 1..Len(data.faces) |->
                             deserializeFaceStratum(data.faces[i])], 1)]

(* ---------------------------------------------------------------------- *)
(* utils/stratification.ts: updateMonomials                                *)
(* ---------------------------------------------------------------------- *)

(* forEach face: hullVertices.map(getVertex).filter(defined).map(point) *)
faceHullPoints(r, face) ==
  LET found == SelectSeq([i \in 1..Len(face.hullVertices) |->
                            getVertex(r, face.hullVertices[i])],
                         LAMBDA v : v # Undefined)
  IN  [i \in 1..Len(found) |-> found[i].point]

(* Mutant: interiorMonomials is not cleared before the keys are added. *)
updateMonomialsAdding(r, visiblePoints) ==
  [r EXCEPT !.faces =
     [i \in 1..Len(r.faces) |->
        [r.faces[i] EXCEPT !.interiorMonomials =
           @ \cup {pointKey(p.x, p.y) :
                     p \in {q \in visiblePoints :
                              isPointInsidePolygon(q, faceHullPoints(r, r.faces[i]))}}]]]

(* The registry after the call, which changes the face objects in place;   *)
(* with no face the function returns at once.                              *)
updateMonomials(r, visiblePoints) ==
  IF Len(getAllFaces(r)) = 0 THEN r
  ELSE [r EXCEPT !.faces =
          [i \in 1..Len(r.faces) |->
             [r.faces[i] EXCEPT !.interiorMonomials =
                {pointKey(p.x, p.y) :
                   p \in {q \in visiblePoints :
                            isPointInsidePolygon(q, faceHullPoints(r, r.faces[i]))}}]]]

(* ---------------------------------------------------------------------- *)
(* Registries as objects: what a call of the builder allocates, and the    *)
(* methods that change a registry in place                                 *)
(* ---------------------------------------------------------------------- *)

(* The registry object of new StratumRegistry(): three Maps, each the      *)
(* sequence, in insertion order, of the addresses of its strata.           *)
registryObject(vertices, edges, faces) ==
  [vertices |-> vertices, edges |-> edges, faces |-> faces]

(* Mutant: the builder fills one registry object kept between the calls:   *)
(* the registries returned before are that object.                         *)
allocateShared(h, r) ==
  LET nv == Len(r.vertices)
      ne == Len(r.edges)
      nf == Len(r.faces)
      base == Len(h)
      object == registryObject([i \in 1..nv |-> base + i],
                               [i \in 1..ne |-> base + nv + i],
                               [i \in 1..nf |-> base + nv + ne + i])
  IN  [a \in 1..base |-> IF "dimension" \in DOMAIN h[a] THEN h[a] ELSE object]
        \o r.vertices \o r.edges \o r.faces \o <<object>>

(* The heap after a call of the builder that made the registry r: the      *)
(* object literals of its strata and the new StratumRegistry() are new     *)
(* objects, the registry the last of them.                                 *)
allocate(h, r) ==
  LET nv == Len(r.vertices)
      ne == Len(r.edges)
      nf == Len(r.faces)
      base == Len(h)
  IN  h \o r.vertices \o r.edges \o r.faces
        \o <<registryObject([i \in 1..nv |-> base + i],
                            [i \in 1..ne |-> base + nv + i],
                            [i \in 1..nf |-> base + nv + ne + i])>>

(* The registry at address ref with its strata read from the heap. *)
derefRegistry(h, ref) ==
  [vertices |-> [i \in 1..Len(h[ref].vertices) |-> h[h[ref].vertices[i]]],
   edges |-> [i \in 1..Len(h[ref].edges) |-> h[h[ref].edges[i]]],
   faces |-> [i \in 1..Len(h[ref].faces) |-> h[h[ref].faces[i]]]]

(* Map.set(stratum.id, stratum) on a Map given by its addresses. *)
mapSetAddress(h, addresses, a) ==
  IF \E i \in 1..Len(addresses) : h[addresses[i]].id = h[a].id
  THEN [addresses EXCEPT ![CHOOSE i \in 1..Len(addresses) : h[addresses[i]].id = h[a].id] = a]
  ELSE Append(addresses, a)

addVertex(h, ref, a) == [h EXCEPT ![ref].vertices = mapSetAddress(h, @, a)]

addEdge(h, ref, a) == [h EXCEPT ![ref].edges = mapSetAddress(h, @, a)]

addFace(h, ref, a) == [h EXCEPT ![ref].faces = mapSetAddress(h, @, a)]

clear(h, ref) == [h EXCEPT ![ref] = registryObject(<<>>, <<>>, <<>>)]

(* updateMonomials on the registry at ref: its face objects are changed    *)
(* in place.                                                               *)
updateMonomialsAt(h, ref, visiblePoints) ==
  LET updated == updateMonomials(derefRegistry(h, ref), visiblePoints)
  IN  [a \in 1..Len(h) |->
         IF \E i \in 1..Len(h[ref].faces) : h[ref].faces[i] = a
         THEN updated.faces[CHOOSE i \in 1..Len(h[ref].faces) : h[ref].faces[i] = a]
         ELSE h[a]]

(* ---------------------------------------------------------------------- *)
(* components/LatticeCanvas.tsx                                            *)
(* ---------------------------------------------------------------------- *)

(* Mutant: the y difference is taken from the other endpoint. *)
calculateEdgeMultiplicityMixed(v1, v2, monomial) ==
  LET nx == v2.y - v1.y
      ny == -(v2.x - v1.x)
      g  == gcd(nx, ny)
      primitiveNx == IF g = 0 THEN 0 ELSE nx \div g
      primitiveNy == IF g = 0 THEN 0 ELSE ny \div g
      dist == primitiveNx * (monomial.x - v1.x) + primitiveNy * (monomial.y - v2.y)
  IN  abs(dist)

(* Mutant: the signed distance is returned. *)
calculateEdgeMultiplicitySigned(v1, v2, monomial) ==
  LET nx == v2.y - v1.y
      ny == -(v2.x - v1.x)
      g  == gcd(nx, ny)
      primitiveNx == IF g = 0 THEN 0 ELSE nx \div g
      primitiveNy == IF g = 0 THEN 0 ELSE ny \div g
  IN  primitiveNx * (monomial.x - v1.x) + primitiveNy * (monomial.y - v1.y)

calculateEdgeMultiplicity(v1, v2, monomial) ==
  LET nx == v2.y - v1.y
      ny == -(v2.x - v1.x)
      g  == gcd(nx, ny)
      primitiveNx == IF g = 0 THEN 0 ELSE nx \div g
      primitiveNy == IF g = 0 THEN 0 ELSE ny \div g
      dist == primitiveNx * (monomial.x - v1.x) + primitiveNy * (monomial.y - v1.y)
  IN  abs(dist)

(* ---------------------------------------------------------------------- *)
(* hooks/useRingsHandlers.ts: the stratum under a canvas position          *)
(* ---------------------------------------------------------------------- *)

(* The canvas in the view it is constructed with: the default size and     *)
(* grid spacing of the component, zoom 1, no pan, the square lattice.      *)
width == 600
height == 400
gridSpacing == 40
zoom == 1
offset == [x |-> 0, y |-> 0]

(* Math.min(20, Math.max(10, spacing * 0.35)) on the square lattice; the   *)
(* product is a whole number for the spacing of this view.                 *)
getSelectionThreshold ==
  LET spacing == gridSpacing * zoom
      scaled == (spacing * 35) \div 100
      atLeast == IF scaled > 10 THEN scaled ELSE 10
  IN  IF atLeast < 20 THEN atLeast ELSE 20

latticeToCanvas(latticeX, latticeY) ==
  LET centerX == width \div 2
      centerY == height \div 2
      spacing == gridSpacing * zoom
  IN  [x |-> centerX + latticeX * spacing + offset.x,
       y |-> centerY - latticeY * spacing - offset.y]

(* Math.round(a / spacing) is the floor of a / spacing + 1/2. *)
canvasToLattice(canvasX, canvasY) ==
  LET centerX == width \div 2
      centerY == height \div 2
      spacing == gridSpacing * zoom
  IN  [x |-> (2 * (canvasX - centerX - offset.x) + spacing) \div (2 * spacing),
       y |-> (2 * (centerY - canvasY - offset.y) + spacing) \div (2 * spacing)]

(* A distance is represented by its square, as a fraction n / d with       *)
(* d >= 0: the code takes square roots and compares the results.  The      *)
(* fraction 1 / 0 is Infinity.                                             *)
Infinity == [n |-> 1, d |-> 0]

lessThan(a, b) == a.n * b.d < b.n * a.d

wholeDistance(k) == [n |-> k * k, d |-> 1]

canvasDistance(p1, p2) ==
  LET dx == p2.x - p1.x
      dy == p2.y - p1.y
  IN  [n |-> dx * dx + dy * dy, d |-> 1]

(* t = dot / lengthSquared clamped to [0, 1]; the closest point is         *)
(* v1 + t (v2 - v1), at squared distance |p - v1|^2 - dot^2 / lengthSquared *)
(* when t is strictly between 0 and 1.  The fraction is kept in lowest     *)
(* terms.                                                                  *)
distanceToSegment(p, v1, v2) ==
  LET dx == v2.x - v1.x
      dy == v2.y - v1.y
      lengthSquared == dx * dx + dy * dy
      dot == (p.x - v1.x) * dx + (p.y - v1.y) * dy
      numerator == canvasDistance(p, v1).n * lengthSquared - dot * dot
      g == gcd(numerator, lengthSquared)
  IN  IF lengthSquared = 0 THEN canvasDistance(p, v1)
      ELSE IF dot <= 0 THEN canvasDistance(p, v1)
      ELSE IF dot >= lengthSquared THEN canvasDistance(p, v2)
      ELSE [n |-> numerator \div g, d |-> lengthSquared \div g]

(* The isPointOnSegment of this file; its tolerances of 1e-10 make no      *)
(* difference on integers.                                                 *)
ringsIsPointOnSegment(point, v1, v2) ==
  LET cross == (v2.y - v1.y) * (point.x - v1.x) - (v2.x - v1.x) * (point.y - v1.y)
      dotProduct == (point.x - v1.x) * (v2.x - v1.x) + (point.y - v1.y) * (v2.y - v1.y)
      squaredLength == (v2.x - v1.x) * (v2.x - v1.x) + (v2.y - v1.y) * (v2.y - v1.y)
  IN  IF abs(cross) > 0 THEN FALSE
      ELSE dotProduct >= 0 /\ dotProduct <= squaredLength

(* The loop for (i = 0, j = n - 1; i < n; j = i++) of                      *)
(* isPointInsideOrOnPolygon, from index i with the parity so far.  The     *)
(* quotient of the ray test is only taken when yi # yj; the comparison     *)
(* with it is made after multiplying by yj - yi.                           *)
RECURSIVE rayCastFrom(_, _, _, _, _)
rayCastFrom(point, polygon, i, j, inside) ==
  IF i > Len(polygon) THEN inside
  ELSE LET xi == polygon[i].x
           yi == polygon[i].y
           xj == polygon[j].x
           yj == polygon[j].y
           crosses == (yi > point.y) # (yj > point.y)
           left == IF yj - yi > 0
                   THEN (point.x - xi) * (yj - yi) < (xj - xi) * (point.y - yi)
                   ELSE (point.x - xi) * (yj - yi) > (xj - xi) * (point.y - yi)
           intersect == crosses /\ left
       IN  IF ringsIsPointOnSegment(point, polygon[i], polygon[j]) THEN TRUE
           ELSE rayCastFrom(point, polygon, i + 1, i,
                            IF intersect THEN ~inside ELSE inside)

isPointInsideOrOnPolygon(point, polygon) ==
  rayCastFrom(point, polygon, 1, Len(polygon), FALSE)

(* The value null of closestStratumId.  The code tests it with             *)
(* !closestStratumId, which is true of null and of the empty string only,  *)
(* and no stratum id is empty.                                             *)
Null == <<>>

(* The loop over the vertices: closest = [id, distance]. *)
RECURSIVE closestVertexFrom(_, _, _, _)
closestVertexFrom(vertices, click, i, closest) ==
  IF i > Len(vertices) THEN closest
  ELSE LET canvasPos == latticeToCanvas(vertices[i].point.x, vertices[i].point.y)
           distance == canvasDistance(click, canvasPos)
       IN  IF lessThan(distance, wholeDistance(getSelectionThreshold))
              /\ lessThan(distance, closest.distance)
           THEN closestVertexFrom(vertices, click, i + 1,
                                  [id |-> vertices[i].id, distance |-> distance])
           ELSE closestVertexFrom(vertices, click, i + 1, closest)

(* The loop over the edges. *)
RECURSIVE closestEdgeFrom(_, _, _, _, _)
closestEdgeFrom(r, edges, click, i, closest) ==
  IF i > Len(edges) THEN closest
  ELSE LET v1 == getVertex(r, edges[i].vertices[1])
           v2 == getVertex(r, edges[i].vertices[2])
       IN  IF v1 = Undefined \/ v2 = Undefined
           THEN closestEdgeFrom(r, edges, click, i + 1, closest)
           ELSE LET canvasV1 == latticeToCanvas(v1.point.x, v1.point.y)
                    canvasV2 == latticeToCanvas(v2.point.x, v2.point.y)
                    distance == distanceToSegment(click, canvasV1, canvasV2)
                IN  IF lessThan(distance, wholeDistance(getSelectionThreshold))
                       /\ lessThan(distance, closest.distance)
                    THEN closestEdgeFrom(r, edges, click, i + 1,
                                         [id |-> edges[i].id, distance |-> distance])
                    ELSE closestEdgeFrom(r, edges, click, i + 1, closest)

(* The third step: the first face, when the lattice point the position     *)
(* rounds to is inside or on the polygon of its hull vertices.             *)
faceAt(r, canvasX, canvasY) ==
  LET faces == getAllFaces(r)
  IN  IF Len(faces) > 0
      THEN LET face == faces[1]
               found == SelectSeq([i \in 1..Len(face.hullVertices) |->
                                     getVertex(r, face.hullVertices[i])],
                                  LAMBDA v : v # Undefined)
               hullPoints == [i \in 1..Len(found) |-> found[i].point]
               latticePoint == canvasToLattice(canvasX, canvasY)
           IN  IF isPointInsideOrOnPolygon(latticePoint, hullPoints)
               THEN face.id ELSE Null
      ELSE Null

findStratumAtPosition(r, canvasX, canvasY) ==
  LET click == [x |-> canvasX, y |-> canvasY]
      afterVertices == closestVertexFrom(getAllVertices(r), click, 1,
                                         [id |-> Null, distance |-> Infinity])
      afterEdges == IF afterVertices.id = Null
                    THEN closestEdgeFrom(r, getAllEdges(r), click, 1, afterVertices)
                    ELSE afterVertices
  IN  IF afterEdges.id # Null THEN afterEdges.id
      ELSE faceAt(r, canvasX, canvasY)

(* ---------------------------------------------------------------------- *)
(* components/LatticeCanvas.tsx and hooks/usePolytopeBuilderHandlers.ts:   *)
(* the selection of the polytope builder                                   *)
(* ---------------------------------------------------------------------- *)

(* Number(s) for the decimal notation of an integer. *)
RECURSIVE digitsToNumber(_)
digitsToNumber(chars) ==
  IF Len(chars) = 0 THEN 0
  ELSE digitsToNumber(SubSeq(chars, 1, Len(chars) - 1)) * 10
         + (CHOOSE d \in 0..9 : DigitChars[d + 1] = chars[Len(chars)])

stringToNumber(chars) ==
  IF Len(chars) > 0 /\ chars[1] = "-"
  THEN -digitsToNumber(SubSeq(chars, 2, Len(chars)))
  ELSE digitsToNumber(chars)

(* key.split(',').map(Number) of a key with one comma *)
parseKey(key) ==
  LET comma == CHOOSE i \in 1..Len(key) : key[i] = ","
  IN  [x |-> stringToNumber(SubSeq(key, 1, comma - 1)),
       y |-> stringToNumber(SubSeq(key, comma + 1, Len(key)))]

(* Array.from(selectedPoints).map(...): a new Point object per key. *)
getSelectedPointsArray(keys) ==
  [i \in 1..Len(keys) |-> Obj(parseKey(keys[i]).x, parseKey(keys[i]).y, i)]

(* The Set after the updater of handleClick: the key is deleted when it is *)
(* in the Set and added at the end when it is not.                         *)
toggleKey(keys, key) ==
  IF key \in Range(keys)
  THEN SelectSeq(keys, LAMBDA k : k # key)
  ELSE Append(keys, key)

(* handleClick: the Set after a click at (mouseCanvasX, mouseCanvasY). *)
handleClick(keys, mouseCanvasX, mouseCanvasY) ==
  LET nearestLattice == canvasToLattice(mouseCanvasX, mouseCanvasY)
      nearestCanvas == latticeToCanvas(nearestLattice.x, nearestLattice.y)
      distance == canvasDistance([x |-> mouseCanvasX, y |-> mouseCanvasY], nearestCanvas)
  IN  IF ~lessThan(wholeDistance(getSelectionThreshold), distance)
      THEN toggleKey(keys, pointKey(nearestLattice.x, nearestLattice.y))
      ELSE keys

(* Mutant: the effect looks for interior points from four points on. *)
removeInteriorPointsFromFour(keys) ==
  LET selectedPointsArray == getSelectedPointsArray(keys)
  IN  IF Len(selectedPointsArray) >= 4
      THEN LET hullPoints == convexHull(selectedPointsArray)
               hullKeys == {pointKey(p.x, p.y) : p \in Range(hullPoints)}
           IN  SelectSeq(keys, LAMBDA key : key \in hullKeys)
      ELSE keys

(* The interior-removal effect: the Set it leaves, which is the Set it     *)
(* found when there is no interior point.                                  *)
removeInteriorPoints(keys) ==
  LET selectedPointsArray == getSelectedPointsArray(keys)
  IN  IF Len(selectedPointsArray) >= 3
      THEN LET hullPoints == convexHull(selectedPointsArray)
               hullKeys == {pointKey(p.x, p.y) : p \in Range(hullPoints)}
           IN  SelectSeq(keys, LAMBDA key : key \in hullKeys)
      ELSE keys

(* ---------------------------------------------------------------------- *)
(* components/LatticeCanvas.tsx and                                        *)
(* hooks/useSectionInvestigatorHandlers.ts: the section investigator       *)
(* ---------------------------------------------------------------------- *)

(* Math.floor(a / b) and Math.ceil(a / b) for whole a and b > 0. *)
floorDiv(a, b) == a \div b

ceilDiv(a, b) == -((-a) \div b)

(* The effect that follows a change of mode, on the square lattice: the    *)
(* keys of the lattice points on the hull's edges and of the visible ones  *)
(* strictly inside the hull.                                               *)
edgeAndInteriorPoints(keys) ==
  LET selectedPointsArray == getSelectedPointsArray(keys)
  IN  IF Len(selectedPointsArray) >= 3
      THEN LET hullPoints == convexHull(selectedPointsArray)
               spacing == gridSpacing * zoom
               centerX == width \div 2
               centerY == height \div 2
               minX == floorDiv(-centerX - offset.x, spacing) - 1
               maxX == ceilDiv(width - centerX - offset.x, spacing) + 1
               minY == floorDiv(-centerY - offset.y, spacing) - 1
               maxY == ceilDiv(height - centerY - offset.y, spacing) + 1
           IN  [edgePoints |-> {pointKey(p.x, p.y) : p \in Range(edgePointsOfPolygon(hullPoints))},
                interiorPoints |->
                  {pointKey(p.x, p.y) :
                     p \in {q \in enumerateLatticePoints(minX, maxX, minY, maxY) :
                              isPointInsidePolygon(q, hullPoints)}}]
      ELSE [edgePoints |-> {}, interiorPoints |-> {}]

(* handleClick of the section investigator on a canvas with no point       *)
(* selected for investigation: the point selected, or null.                *)
investigatorClick(keys, polytopePoints, mouseCanvasX, mouseCanvasY) ==
  LET nearestLattice == canvasToLattice(mouseCanvasX, mouseCanvasY)
      nearestCanvas == latticeToCanvas(nearestLattice.x, nearestLattice.y)
      distance == canvasDistance([x |-> mouseCanvasX, y |-> mouseCanvasY], nearestCanvas)
      key == pointKey(nearestLattice.x, nearestLattice.y)
  IN  IF /\ ~lessThan(wholeDistance(getSelectionThreshold), distance)
         /\ \/ key \in Range(keys)
            \/ key \in polytopePoints.edgePoints
            \/ key \in polytopePoints.interiorPoints
      THEN nearestLattice
      ELSE Null

(* The test of the highlighted-edges effect that the point p is on the     *)
(* edge from v1 to v2: t = dot / lengthSquared is in [0, 1] and both       *)
(* coordinates of the projection v1 + t (v2 - v1) are within 0.0001 of     *)
(* those of p.                                                             *)
isOnEdge(p, v1, v2) ==
  LET isV1 == v1.x = p.x /\ v1.y = p.y
      isV2 == v2.x = p.x /\ v2.y = p.y
      dx == v2.x - v1.x
      dy == v2.y - v1.y
      lengthSquared == dx * dx + dy * dy
      dot == (p.x - v1.x) * dx + (p.y - v1.y) * dy
  IN  \/ isV1
      \/ isV2
      \/ /\ dot >= 0
         /\ dot <= lengthSquared
         /\ abs((v1.x - p.x) * lengthSquared + dot * dx) * 10000 < lengthSquared
         /\ abs((v1.y - p.y) * lengthSquared + dot * dy) * 10000 < lengthSquared

(* Mutant: only the endpoints of an edge count as on it. *)
RECURSIVE highlightedEdgesEndpointsOnly(_, _, _)
highlightedEdgesEndpointsOnly(hullPoints, p, i) ==
  IF i > Len(hullPoints) THEN <<>>
  ELSE LET v1 == hullPoints[i]
           v2 == hullPoints[(i % Len(hullPoints)) + 1]
       IN  (IF ~(SamePoint(v1, p) \/ SamePoint(v2, p)) THEN <<(<<v1, v2>>)>> ELSE <<>>)
             \o highlightedEdgesEndpointsOnly(hullPoints, p, i + 1)

(* The loop over the hull's edges, from index i. *)
RECURSIVE highlightedEdgesFrom(_, _, _)
highlightedEdgesFrom(hullPoints, p, i) ==
  IF i > Len(hullPoints) THEN <<>>
  ELSE LET v1 == hullPoints[i]
           v2 == hullPoints[(i % Len(hullPoints)) + 1]
       IN  (IF ~isOnEdge(p, v1, v2) THEN <<(<<v1, v2>>)>> ELSE <<>>)
             \o highlightedEdgesFrom(hullPoints, p, i + 1)

(* The highlighted-edges effect. *)
computeHighlightedEdges(keys, selectedInvestigatorPoint) ==
  LET selectedPointsArray == getSelectedPointsArray(keys)
  IN  IF selectedInvestigatorPoint = Null \/ Len(selectedPointsArray) < 3
      THEN <<>>
      ELSE highlightedEdgesFrom(convexHull(selectedPointsArray), selectedInvestigatorPoint, 1)

edgeKey(v1, v2) == pointKey(v1.x, v1.y) \o <<"-">> \o pointKey(v2.x, v2.y)

(* Map.set(key, value) on a Map given as the sequence of its entries. *)
entrySet(entries, key, value) ==
  IF \E i \in 1..Len(entries) : entries[i].key = key
  THEN [entries EXCEPT ![CHOOSE i \in 1..Len(entries) : entries[i].key = key].value = value]
  ELSE Append(entries, [key |-> key, value |-> value])

(* Map.has(key), and Map.get(key), which is undefined without the key. *)
entryHas(entries, key) == \E i \in 1..Len(entries) : entries[i].key = key

entryGet(entries, key) ==
  IF \E i \in 1..Len(entries) : entries[i].key = key
  THEN entries[CHOOSE i \in 1..Len(entries) : entries[i].key = key].value
  ELSE Undefined

RECURSIVE multiplicitiesFrom(_, _, _, _)
multiplicitiesFrom(edges, p, i, multiplicities) ==
  IF i > Len(edges) THEN multiplicities
  ELSE multiplicitiesFrom(edges, p, i + 1,
         entrySet(multiplicities, edgeKey(edges[i][1], edges[i][2]),
                  calculateEdgeMultiplicity(edges[i][1], edges[i][2], p)))

(* The edge-multiplicities effect. *)
computeEdgeMultiplicities(edges, selectedInvestigatorPoint) ==
  IF selectedInvestigatorPoint = Null \/ Len(edges) = 0 THEN <<>>
  ELSE multiplicitiesFrom(edges, selectedInvestigatorPoint, 1, <<>>)

(* The drawing of a highlighted edge shows its multiplicity:               *)
(* multiplicity !== undefined && multiplicity > 0.                         *)
multiplicityShown(multiplicities, v1, v2) ==
  LET multiplicity == entryGet(multiplicities, edgeKey(v1, v2))
  IN  entryHas(multiplicities, edgeKey(v1, v2)) /\ multiplicity > 0

(* ---------------------------------------------------------------------- *)
(* buildPolytopeAttributes: the counts shown as statistics                 *)
(* ---------------------------------------------------------------------- *)

(* count + ' ' + (count === 1 ? singular : plural); the two words are      *)
(* kept as one character each of the sequence.                             *)
getDescr(count, singular, plural) ==
  numberToString(count) \o <<" ">> \o <<(IF count = 1 THEN singular ELSE plural)>>

(* stats.name || 0 for a record of numbers: 0 for a missing field. *)
statOrZero(stats, name) == IF name \in DOMAIN stats THEN stats[name] ELSE 0

buildPolytopeAttributes(stats) ==
  LET strataCount == 1 + statOrZero(stats, "vertices") + statOrZero(stats, "edges")
                       + statOrZero(stats, "faces")
      attribute(name, singular, plural) ==
        [count |-> statOrZero(stats, name),
         descr |-> getDescr(statOrZero(stats, name), singular, plural)]
  IN  [vertices |-> attribute("vertices", "vertex", "vertices"),
       edges |-> attribute("edges", "edge", "edges"),
       faces |-> attribute("faces", "face", "faces"),
       points |-> attribute("points", "point", "points"),
       interior |-> attribute("interior", "interior point", "interior points"),
       boundary |-> attribute("boundary", "boundary point", "boundary points"),
       strata |-> [count |-> strataCount,
                   descr |-> getDescr(strataCount, "stratum", "strata")]]

(* ---------------------------------------------------------------------- *)
(* Inputs                                                                  *)
(* ---------------------------------------------------------------------- *)

(* The caller builds an array of Point objects and calls convexHull on it. *)
(* An entry is a new object (id = its index), possibly with the            *)
(* coordinates of an earlier one, or one more reference to an object       *)
(* already in the array.  The code compares identity only against the      *)
(* anchor (p !== anchor), and a reference to the anchor is pushed after    *)
(* the anchor, when it is the anchor of the array so far; so the repeated  *)
(* references that are generated are those to that object.  hull is the    *)
(* value convexHull returned for the current array.                        *)
Init ==
  /\ pc = "input"
  /\ selectedPoints = <<>>
  /\ visibleLatticePoints = {}
  /\ hull = convexHull(<<>>)
  /\ registry = EmptyRegistry
  /\ edgeIdCalls = <<>>
  /\ geometryCall = <<>>
  /\ heap = <<>>
  /\ results = <<>>
  /\ selection = <<>>

PushNewPoint ==
  /\ pc = "input"
  /\ Len(selectedPoints) < MaxPts
  /\ \E px \in Coords, py \in Coords :
        selectedPoints' = Append(selectedPoints, Obj(px, py, Len(selectedPoints) + 1))
  /\ hull' = convexHull(selectedPoints')
  /\ UNCHANGED <<pc, visibleLatticePoints, registry, edgeIdCalls, geometryCall, heap, results, selection>>

PushSamePoint ==
  /\ pc = "input"
  /\ Len(selectedPoints) < MaxPts
  /\ Len(selectedPoints) >= 1
  /\ selectedPoints' =
       Append(selectedPoints, findAnchor(selectedPoints, 1, selectedPoints[1]))
  /\ hull' = convexHull(selectedPoints')
  /\ UNCHANGED <<pc, visibleLatticePoints, registry, edgeIdCalls, geometryCall, heap, results, selection>>

(* convexHull(convexHull(P)): the caller takes the returned array as its   *)
(* array, then calls convexHull on it.                                     *)
TakeResult ==
  /\ pc = "input"
  /\ selectedPoints' = hull
  /\ pc' = "result"
  /\ UNCHANGED <<visibleLatticePoints, hull, registry, edgeIdCalls, geometryCall, heap, results, selection>>

CallConvexHullAgain ==
  /\ pc = "result"
  /\ hull' = convexHull(selectedPoints)
  /\ pc' = "hull2"
  /\ UNCHANGED <<selectedPoints, visibleLatticePoints, registry, edgeIdCalls, geometryCall, heap, results, selection>>

NextHull == PushNewPoint \/ PushSamePoint \/ TakeResult \/ CallConvexHullAgain

SpecHull == Init /\ [][NextHull]_vars

(* ---------------------------------------------------------------------- *)
(* The builder applied to a selection and a visible window                 *)
(* ---------------------------------------------------------------------- *)

(* The visible windows: rectangles of enumerateLatticePoints, as the       *)
(* canvas computes them from its pan and zoom: one around the whole grid   *)
(* with a margin of one, one panned partly off the grid, one panned        *)
(* wholly off it.                                                          *)
Windows ==
  { enumerateLatticePoints(-1, MaxCoord + 1, -1, MaxCoord + 1),
    enumerateLatticePoints(1, MaxCoord + 1, 0, MaxCoord),
    enumerateLatticePoints(MaxCoord + 1, MaxCoord + 3, MaxCoord + 1, MaxCoord + 3) }

CallCreateStratification ==
  /\ pc = "input"
  /\ \E w \in Windows :
       /\ visibleLatticePoints' = w
       /\ registry' = createStratificationFromPolytope(selectedPoints, w)
  /\ pc' = "built"
  /\ UNCHANGED <<selectedPoints, hull, edgeIdCalls, geometryCall, heap, results, selection>>

NextBuild == PushNewPoint \/ PushSamePoint \/ CallCreateStratification

SpecBuild == Init /\ [][NextBuild]_vars

(* ---------------------------------------------------------------------- *)
(* The builder applied to the same points in another order                 *)
(* ---------------------------------------------------------------------- *)

(* The array with the entries i and i + 1 exchanged, built as              *)
(* getSelectedPointsArray builds it: one new object per entry.             *)
swapEntries(points, i) ==
  [k \in 1..Len(points) |->
     LET p == IF k = i THEN points[i + 1]
              ELSE IF k = i + 1 THEN points[i]
              ELSE points[k]
     IN  Obj(p.x, p.y, k)]

ReorderAndRebuild ==
  /\ pc \in {"built", "rebuilt"}
  /\ \E i \in 1..(Len(selectedPoints) - 1) :
        selectedPoints' = swapEntries(selectedPoints, i)
  /\ hull' = convexHull(selectedPoints')
  /\ registry' = createStratificationFromPolytope(selectedPoints', visibleLatticePoints)
  /\ pc' = "rebuilt"
  /\ UNCHANGED <<visibleLatticePoints, edgeIdCalls, geometryCall, heap, results, selection>>

NextReorder == PushNewPoint \/ CallCreateStratification \/ ReorderAndRebuild

SpecReorder == Init /\ [][NextReorder]_vars

(* ---------------------------------------------------------------------- *)
(* edgeId applied to two pairs of endpoints                                *)
(* ---------------------------------------------------------------------- *)

(* Coordinates of the endpoints: negative, zero, one and two digits. *)
IdCoords == {-11, -1, 0, 1, 11}

IdPoints == {Point(px, py) : px \in IdCoords, py \in IdCoords}

CallEdgeId ==
  /\ pc = "input"
  /\ \E a \in IdPoints, b \in IdPoints, c \in IdPoints, d \in IdPoints :
        edgeIdCalls' = << [v1 |-> a, v2 |-> b, id |-> edgeId(a, b)],
                          [v1 |-> c, v2 |-> d, id |-> edgeId(c, d)] >>
  /\ pc' = "ids"
  /\ UNCHANGED <<selectedPoints, visibleLatticePoints, hull, registry, geometryCall, heap, results, selection>>

NextIds == CallEdgeId

SpecIds == Init /\ [][NextIds]_vars

(* ---------------------------------------------------------------------- *)
(* computePrimitiveNormal applied to a pair of points                      *)
(* ---------------------------------------------------------------------- *)

(* Coordinates of the endpoints and of the reference point. *)
GeomCoords == (-(MaxCoord + 1))..(MaxCoord + 1)

GeomPoints == {Point(px, py) : px \in GeomCoords, py \in GeomCoords}

CallComputePrimitiveNormal ==
  /\ pc = "input"
  /\ \E a \in GeomPoints, b \in GeomPoints :
        geometryCall' = [v1 |-> a, v2 |-> b, normal |-> computePrimitiveNormal(a, b)]
  /\ pc' = "normal"
  /\ UNCHANGED <<selectedPoints, visibleLatticePoints, hull, registry, edgeIdCalls, heap, results, selection>>

NextNormal == CallComputePrimitiveNormal

SpecNormal == Init /\ [][NextNormal]_vars

(* ---------------------------------------------------------------------- *)
(* The registry serialized and loaded                                      *)
(* ---------------------------------------------------------------------- *)

CallRoundTrip ==
  /\ pc = "built"
  /\ registry' = fromJSON(toJSON(registry))
  /\ pc' = "restored"
  /\ UNCHANGED <<selectedPoints, visibleLatticePoints, hull, edgeIdCalls, geometryCall, heap, results, selection>>

removeAt(array, i) == SubSeq(array, 1, i - 1) \o SubSeq(array, i + 1, Len(array))

(* fromJSON on hand-crafted input: the serialized form of a built registry *)
(* with one entry of one of its three arrays deleted, so that the ids      *)
(* naming the deleted stratum no longer resolve.                           *)
LoadCrafted ==
  /\ pc = "built"
  /\ \E kind \in {"vertices", "edges", "faces"} :
       \E i \in 1..Len(toJSON(registry)[kind]) :
          registry' = fromJSON([toJSON(registry) EXCEPT ![kind] = removeAt(@, i)])
  /\ pc' = "loaded"
  /\ UNCHANGED <<selectedPoints, visibleLatticePoints, hull, edgeIdCalls, geometryCall, heap, results, selection>>

NextJSON == PushNewPoint \/ CallCreateStratification \/ CallRoundTrip \/ LoadCrafted

SpecJSON == Init /\ [][NextJSON]_vars

(* ---------------------------------------------------------------------- *)
(* calculateEdgeMultiplicity applied to an edge and a reference point      *)
(* ---------------------------------------------------------------------- *)

CallCalculateEdgeMultiplicity ==
  /\ pc = "input"
  /\ \E a \in GeomPoints, b \in GeomPoints, m \in GeomPoints :
        geometryCall' = [v1 |-> a, v2 |-> b, monomial |-> m,
                         multiplicity |-> calculateEdgeMultiplicity(a, b, m)]
  /\ pc' = "multiplicity"
  /\ UNCHANGED <<selectedPoints, visibleLatticePoints, hull, registry, edgeIdCalls, heap, results, selection>>

NextMultiplicity == CallCalculateEdgeMultiplicity

SpecMultiplicity == Init /\ [][NextMultiplicity]_vars

(* ---------------------------------------------------------------------- *)
(* A pointer position looked up in the registry built for the selection    *)
(* ---------------------------------------------------------------------- *)

(* The pointer positions, as pixel offsets from the canvas origin of the   *)
(* lattice: on lattice points, half way between them, a quarter of the     *)
(* spacing from them, and half a spacing off the grid.  None is at the     *)
(* threshold distance of a vertex or an edge of the grid exactly.          *)
ClickOffsets == {-20, 10} \cup {20 * k : k \in 0..(MaxCoord + 1)}

CallFindStratumAtPosition ==
  /\ pc = "built"
  /\ \E dx \in ClickOffsets, dy \in ClickOffsets :
       LET canvasX == width \div 2 + dx
           canvasY == height \div 2 - dy
       IN  geometryCall' = [canvasX |-> canvasX, canvasY |-> canvasY,
                            stratumId |-> findStratumAtPosition(registry, canvasX, canvasY)]
  /\ pc' = "lookup"
  /\ UNCHANGED <<selectedPoints, visibleLatticePoints, hull, registry, edgeIdCalls, heap, results, selection>>

NextLookup == PushNewPoint \/ CallCreateStratification \/ CallFindStratumAtPosition

SpecLookup == Init /\ [][NextLookup]_vars

(* ---------------------------------------------------------------------- *)
(* Two registries built one after the other and kept, the second changed   *)
(* ---------------------------------------------------------------------- *)

(* The window of the two calls of the builder, and the windows the second  *)
(* registry is updated with.                                               *)
BuildWindow == enumerateLatticePoints(-1, MaxCoord + 1, -1, MaxCoord + 1)

UpdateWindows ==
  { enumerateLatticePoints(1, MaxCoord + 1, 0, MaxCoord),
    enumerateLatticePoints(MaxCoord + 1, MaxCoord + 3, MaxCoord + 1, MaxCoord + 3) }

(* A call of the builder whose result the caller keeps; points may be      *)
(* added to the array between the first call and the second.               *)
CallBuilderAndKeep ==
  /\ pc = "input"
  /\ Len(results) < 2
  /\ heap' = allocate(heap, createStratificationFromPolytope(selectedPoints, BuildWindow))
  /\ results' = Append(results, Len(heap'))
  /\ pc' = IF Len(results) = 0 THEN "input" ELSE "second"
  /\ UNCHANGED <<selectedPoints, visibleLatticePoints, hull, registry, edgeIdCalls, geometryCall, selection>>

(* Strata made by the caller, as arguments of addVertex, addEdge, addFace. *)
callerVertex == newVertexStratum(Obj(MaxCoord + 1, MaxCoord + 1, MaxPts + 1))

callerEdge ==
  newEdgeStratum(Obj(MaxCoord + 1, MaxCoord + 1, MaxPts + 1), Obj(0, 0, MaxPts + 2))

callerFace ==
  [id |-> FaceId, dimension |-> 2, hullVertices |-> <<>>,
   vertexMonomials |-> {}, edgeMonomials |-> {}, interiorMonomials |-> {},
   substrata |-> {}, superstrata |-> {}]

(* r2.addVertex(v) with v a new stratum, or the first vertex stratum of r1 *)
AddVertexToSecond ==
  /\ pc = "second"
  /\ \/ heap' = addVertex(Append(heap, callerVertex), results[2], Len(heap) + 1)
     \/ /\ Len(heap[results[1]].vertices) > 0
        /\ heap' = addVertex(heap, results[2], heap[results[1]].vertices[1])
  /\ pc' = "mutated"
  /\ UNCHANGED <<selectedPoints, visibleLatticePoints, hull, registry, edgeIdCalls,
                 geometryCall, results, selection>>

AddEdgeToSecond ==
  /\ pc = "second"
  /\ heap' = addEdge(Append(heap, callerEdge), results[2], Len(heap) + 1)
  /\ pc' = "mutated"
  /\ UNCHANGED <<selectedPoints, visibleLatticePoints, hull, registry, edgeIdCalls,
                 geometryCall, results, selection>>

AddFaceToSecond ==
  /\ pc = "second"
  /\ heap' = addFace(Append(heap, callerFace), results[2], Len(heap) + 1)
  /\ pc' = "mutated"
  /\ UNCHANGED <<selectedPoints, visibleLatticePoints, hull, registry, edgeIdCalls,
                 geometryCall, results, selection>>

ClearSecond ==
  /\ pc = "second"
  /\ heap' = clear(heap, results[2])
  /\ pc' = "mutated"
  /\ UNCHANGED <<selectedPoints, visibleLatticePoints, hull, registry, edgeIdCalls,
                 geometryCall, results, selection>>

UpdateMonomialsOfSecond ==
  /\ pc = "second"
  /\ \E w \in UpdateWindows : heap' = updateMonomialsAt(heap, results[2], w)
  /\ pc' = "mutated"
  /\ UNCHANGED <<selectedPoints, visibleLatticePoints, hull, registry, edgeIdCalls,
                 geometryCall, results, selection>>

NextFresh ==
  \/ PushNewPoint
  \/ CallBuilderAndKeep
  \/ AddVertexToSecond
  \/ AddEdgeToSecond
  \/ AddFaceToSecond
  \/ ClearSecond
  \/ UpdateMonomialsOfSecond

SpecFresh == Init /\ [][NextFresh]_vars

(* ---------------------------------------------------------------------- *)
(* updateMonomials on the registry built for the selection                 *)
(* ---------------------------------------------------------------------- *)

CallUpdateMonomials ==
  /\ pc = "built"
  /\ \E w \in Windows :
       /\ visibleLatticePoints' = w
       /\ registry' = updateMonomials(registry, w)
  /\ pc' = "updated"
  /\ UNCHANGED <<selectedPoints, hull, edgeIdCalls, geometryCall, heap, results, selection>>

NextUpdate == PushNewPoint \/ CallCreateStratification \/ CallUpdateMonomials

SpecUpdate == Init /\ [][NextUpdate]_vars

(* ---------------------------------------------------------------------- *)
(* Clicks on the canvas of the polytope builder and the effect that        *)
(* follows each change of the selection                                    *)
(* ---------------------------------------------------------------------- *)

(* The click positions, as pixel offsets from the canvas origin of the     *)
(* lattice: on the lattice points of the grid, a quarter of the spacing    *)
(* from one (within the threshold), and half way between two (beyond it).  *)
SelectOffsets == {gridSpacing * c : c \in Coords} \cup {10, 20}

(* A click, when no effect is waiting to run.  The Set holds at most       *)
(* MaxPts keys.                                                            *)
ClickOnCanvas ==
  /\ pc = "input"
  /\ \E dx \in SelectOffsets, dy \in SelectOffsets :
       LET after == handleClick(selection, width \div 2 + dx, height \div 2 - dy)
       IN  /\ Len(after) <= MaxPts
           /\ selection' = after
           /\ pc' = IF after # selection THEN "clicked" ELSE "input"
  /\ UNCHANGED <<selectedPoints, visibleLatticePoints, hull, registry, edgeIdCalls,
                 geometryCall, heap, results>>

(* The effect with the dependency [selectedPoints]: it runs after every    *)
(* change of the Set, by a click ("clicked") or by itself ("removed").     *)
RemoveInteriorPointsEffect ==
  /\ pc \in {"clicked", "removed"}
  /\ selection' = removeInteriorPoints(selection)
  /\ pc' = IF selection' # selection THEN "removed" ELSE "input"
  /\ UNCHANGED <<selectedPoints, visibleLatticePoints, hull, registry, edgeIdCalls,
                 geometryCall, heap, results>>

NextSelect == ClickOnCanvas \/ RemoveInteriorPointsEffect

(* React runs a pending effect. *)
SpecSelect == Init /\ [][NextSelect]_vars /\ WF_vars(RemoveInteriorPointsEffect)

(* ---------------------------------------------------------------------- *)
(* A click of the section investigator on the selection made               *)
(* ---------------------------------------------------------------------- *)

(* The mode is changed to the section investigator when no effect of the   *)
(* builder is pending; a click follows, and the effects that follow the    *)
(* change of the point it selects.                                         *)
ClickInvestigator ==
  /\ pc = "input"
  /\ \E dx \in SelectOffsets, dy \in SelectOffsets :
       LET point == investigatorClick(selection, edgeAndInteriorPoints(selection),
                                      width \div 2 + dx, height \div 2 - dy)
           edges == computeHighlightedEdges(selection, point)
       IN  geometryCall' = [selectedInvestigatorPoint |-> point,
                            highlightedEdges |-> edges,
                            edgeMultiplicities |-> computeEdgeMultiplicities(edges, point)]
  /\ pc' = "investigated"
  /\ UNCHANGED <<selectedPoints, visibleLatticePoints, hull, registry, edgeIdCalls,
                 heap, results, selection>>

NextInvestigate == ClickOnCanvas \/ RemoveInteriorPointsEffect \/ ClickInvestigator

SpecInvestigate == Init /\ [][NextInvestigate]_vars

(* ---------------------------------------------------------------------- *)
(* The statistics of the registry built for the selection                  *)
(* ---------------------------------------------------------------------- *)

(* buildPolytopeAttributes on the vertex, edge and face counts of the      *)
(* registry.                                                               *)
CallBuildPolytopeAttributes ==
  /\ pc = "built"
  /\ LET stats == [vertices |-> Len(getAllVertices(registry)),
                   edges |-> Len(getAllEdges(registry)),
                   faces |-> Len(getAllFaces(registry))]
     IN  geometryCall' = [stats |-> stats, attributes |-> buildPolytopeAttributes(stats)]
  /\ pc' = "attributes"
  /\ UNCHANGED <<selectedPoints, visibleLatticePoints, hull, registry, edgeIdCalls,
                 heap, results, selection>>

NextAttributes == PushNewPoint \/ CallCreateStratification \/ CallBuildPolytopeAttributes

SpecAttributes == Init /\ [][NextAttributes]_vars

(* ---------------------------------------------------------------------- *)
(* Properties                                                              *)
(* ---------------------------------------------------------------------- *)

Built == pc = "built"

Ids(strata) == {strata[i].id : i \in 1..Len(strata)}

NoRepeatedId(strata) ==
  \A i, j \in 1..Len(strata) : strata[i].id = strata[j].id => i = j

CyclicPairs(h) == {<<h[i], h[(i % Len(h)) + 1]>> : i \in 1..Len(h)}

(* C1: when the hull of the selection has h >= 3 vertices, the registry    *)
(* holds exactly h vertex strata, one per hull point, exactly h edge       *)
(* strata, one per cyclically consecutive hull pair with no two pairs      *)
(* sharing an id, and exactly one face stratum: getTotalCount() = 2h + 1.  *)
C1_StrataCounts ==
  (Built /\ Len(hull) >= 3) =>
    /\ Len(getAllVertices(registry)) = Len(hull)
    /\ NoRepeatedId(getAllVertices(registry))
    /\ Ids(getAllVertices(registry)) = {vertexId(p) : p \in Range(hull)}
    /\ Len(getAllEdges(registry)) = Len(hull)
    /\ NoRepeatedId(getAllEdges(registry))
    /\ Ids(getAllEdges(registry)) = {edgeId(e[1], e[2]) : e \in CyclicPairs(hull)}
    /\ \A i, j \in 1..Len(hull) :
         edgeId(hull[i], hull[(i % Len(hull)) + 1])
           = edgeId(hull[j], hull[(j % Len(hull)) + 1]) => i = j
    /\ Len(getAllFaces(registry)) = 1
    /\ getTotalCount(registry) = 2 * Len(hull) + 1

C1_Witness ==
  Built /\ Len(selectedPoints) = 4 /\ Len(hull) = 4 /\ getTotalCount(registry) = 9

(* C2: a selection of fewer than 3 points gives, for any window, the       *)
(* empty registry.                                                         *)
C2_FewPointsEmpty ==
  (Built /\ Len(selectedPoints) < 3) =>
    /\ getTotalCount(registry) = 0
    /\ getAllVertices(registry) = <<>>
    /\ getAllEdges(registry) = <<>>
    /\ getAllFaces(registry) = <<>>

C2_Witness ==
  /\ Built
  /\ Len(selectedPoints) = 2
  /\ ~SamePoint(selectedPoints[1], selectedPoints[2])
  /\ visibleLatticePoints # {}
  /\ getTotalCount(registry) = 0

AllCollinear(points) ==
  \A i, j, k \in 1..Len(points) : crossProduct(points[i], points[j], points[k]) = 0

(* C3: a selection of 3 or more points that are all collinear (the points  *)
(* left after removing duplicates lie on one line, or are fewer than 3)    *)
(* has a hull of fewer than 3 points and gives the empty registry.         *)
C3_DegenerateEmpty ==
  (Built /\ Len(selectedPoints) >= 3 /\ AllCollinear(selectedPoints)) =>
    /\ Len(hull) < 3
    /\ getTotalCount(registry) = 0

C3_Witness ==
  /\ Built
  /\ Len(selectedPoints) = 4
  /\ AllCollinear(selectedPoints)
  /\ \E i, j \in 1..4 : i # j /\ SamePoint(selectedPoints[i], selectedPoints[j])
  /\ Cardinality({Point(p.x, p.y) : p \in Range(selectedPoints)}) = 3
  /\ getTotalCount(registry) = 0

Between(p, a, b) ==
  /\ crossProduct(a, b, p) = 0
  /\ (IF a.x <= b.x THEN a.x <= p.x /\ p.x <= b.x ELSE b.x <= p.x /\ p.x <= a.x)
  /\ (IF a.y <= b.y THEN a.y <= p.y /\ p.y <= b.y ELSE b.y <= p.y /\ p.y <= a.y)

(* p is inside or on the boundary of the polygon with the counter-clockwise *)
(* vertices h; for two vertices the polygon is their segment, for one the   *)
(* point itself.                                                            *)
InClosure(p, h) ==
  IF Len(h) >= 3
  THEN \A i \in 1..Len(h) : crossProduct(h[i], h[(i % Len(h)) + 1], p) >= 0
  ELSE IF Len(h) = 2 THEN Between(p, h[1], h[2])
  ELSE IF Len(h) = 1 THEN SamePoint(p, h[1])
  ELSE FALSE

(* C4: every point convexHull returns is a point of its input, and every   *)
(* input point is inside or on the boundary of the returned polygon.       *)
C4_HullContainsInput ==
  (pc = "input") =>
    /\ \A i \in 1..Len(hull) : \E j \in 1..Len(selectedPoints) : hull[i] = selectedPoints[j]
    /\ \A i \in 1..Len(selectedPoints) : InClosure(selectedPoints[i], hull)

C4_Witness ==
  /\ pc = "input"
  /\ Len(selectedPoints) = 4
  /\ Len(hull) = 3
  /\ \E i \in 1..4 : isPointInsidePolygon(selectedPoints[i], hull)

RECURSIVE signedArea2From(_, _)
signedArea2From(h, i) ==
  IF i > Len(h) THEN 0
  ELSE LET p == h[i]
           q == h[(i % Len(h)) + 1]
       IN  (p.x * q.y - q.x * p.y) + signedArea2From(h, i + 1)

(* Twice the signed area of the polygon h (shoelace formula). *)
SignedArea2(h) == signedArea2From(h, 1)

(* C5: a hull of 3 or more points is counter-clockwise with positive       *)
(* signed area, every three cyclically consecutive points make a strict    *)
(* left turn, and no point occurs twice.                                   *)
C5_StrictlyConvexCCW ==
  (pc = "input" /\ Len(hull) >= 3) =>
    /\ SignedArea2(hull) > 0
    /\ \A i \in 1..Len(hull) :
         crossProduct(hull[i], hull[(i % Len(hull)) + 1],
                      hull[((i + 1) % Len(hull)) + 1]) > 0
    /\ \A i, j \in 1..Len(hull) : SamePoint(hull[i], hull[j]) => i = j

C5_Witness ==
  /\ pc = "input"
  /\ Len(selectedPoints) = 4
  /\ Len(hull) = 3
  /\ \E i \in 1..4 : \E j \in 1..3 :
       /\ Between(selectedPoints[i], hull[j], hull[(j % 3) + 1])
       /\ \A k \in 1..3 : ~SamePoint(selectedPoints[i], hull[k])

(* C6: convexHull applied to its own result returns the same points in the *)
(* same order.  In state "hull2" selectedPoints is the first result, the   *)
(* argument of the second call, and hull is the second result.             *)
C6_Idempotent == (pc = "hull2") => hull = selectedPoints

C6_Witness ==
  /\ pc = "hull2"
  /\ Len(selectedPoints) = 4
  /\ hull = selectedPoints

(* ---------------------------------------------------------------------- *)

Distinct(points) ==
  \A i, j \in 1..Len(points) : SamePoint(points[i], points[j]) => i = j

(* What C7 compares of a stratum: its id, its monomial sets, its           *)
(* containment sets and, for the face, the hullVertices sequence.          *)
StratumView(st) ==
  [id |-> st.id,
   vertexMonomials |-> st.vertexMonomials,
   edgeMonomials |-> st.edgeMonomials,
   interiorMonomials |-> st.interiorMonomials,
   substrata |-> st.substrata,
   superstrata |-> st.superstrata,
   hullVertices |-> IF st.dimension = 2 THEN st.hullVertices ELSE <<>>]

RegistryView(r) ==
  {StratumView(st) : st \in Range(r.vertices) \cup Range(r.edges) \cup Range(r.faces)}

(* C7: two orderings of the same set of distinct points, with the same     *)
(* window, give registries with the same stratum ids and, for every id,    *)
(* the same monomial sets, containment sets and face hullVertices.  Every  *)
(* reordering is a chain of exchanges of adjacent entries.                 *)
C7_OrderIndependent ==
  [][(pc \in {"built", "rebuilt"} /\ pc' = "rebuilt" /\ Distinct(selectedPoints))
       => RegistryView(registry') = RegistryView(registry)]_vars

C7_Witness ==
  /\ pc = "rebuilt"
  /\ Distinct(selectedPoints)
  /\ Len(selectedPoints) = 4
  /\ Len(hull) = 3
  /\ hull[1] # selectedPoints[1]
  /\ visibleLatticePoints # {}
  /\ getTotalCount(registry) = 7

LexSmaller(a, b) == a.x < b.x \/ (a.x = b.x /\ a.y < b.y)

(* C8: for distinct endpoints the id is "e_", the key of the endpoint that *)
(* is smaller by (x, y), "_", the key of the other; edgeId(a, b) and       *)
(* edgeId(c, d) are equal exactly when {a, b} = {c, d}.                    *)
C8_EdgeIdCanonical ==
  (pc = "ids") =>
    LET c1 == edgeIdCalls[1]
        c2 == edgeIdCalls[2]
        lo == IF LexSmaller(c1.v1, c1.v2) THEN c1.v1 ELSE c1.v2
        hi == IF LexSmaller(c1.v1, c1.v2) THEN c1.v2 ELSE c1.v1
    IN  (c1.v1 # c1.v2 /\ c2.v1 # c2.v2) =>
          /\ c1.id = <<"e", "_">> \o pointKey(lo.x, lo.y) \o <<"_">> \o pointKey(hi.x, hi.y)
          /\ (c1.id = c2.id) <=> ({c1.v1, c1.v2} = {c2.v1, c2.v2})

C8_Witness ==
  /\ pc = "ids"
  /\ edgeIdCalls[1].v1 = Point(1, -11)
  /\ edgeIdCalls[1].v2 = Point(-1, 11)
  /\ edgeIdCalls[2].v1 = edgeIdCalls[1].v2
  /\ edgeIdCalls[2].v2 = edgeIdCalls[1].v1
  /\ edgeIdCalls[1].id = edgeIdCalls[2].id

HullVertexSet(h) == {Point(p.x, p.y) : p \in Range(h)}

EdgePointSet(h) == {Point(p.x, p.y) : p \in Range(edgePointsOfPolygon(h))}

InsideSet(W, h) == {p \in W : isPointInsidePolygon(p, h)}

OutsideSet(W, h) == {p \in W : ~InClosure(p, h)}

(* C9: for a hull H of 3 or more points and a window W, the hull vertices, *)
(* edgePointsOfPolygon(H) and the points of W inside H are pairwise        *)
(* disjoint, and every point of W is in exactly one of four classes: hull  *)
(* vertex, edge point, inside, outside the closure of H.                   *)
C9_WindowPartition ==
  (Built /\ Len(hull) >= 3) =>
    LET V == HullVertexSet(hull)
        E == EdgePointSet(hull)
        I == InsideSet(visibleLatticePoints, hull)
        O == OutsideSet(visibleLatticePoints, hull)
    IN  /\ V \cap E = {}
        /\ V \cap I = {}
        /\ E \cap I = {}
        /\ O \cap (V \cup E \cup I) = {}
        /\ ((V \cup E) \cap visibleLatticePoints) \cup I \cup O = visibleLatticePoints

C9_Witness ==
  /\ Built
  /\ Len(hull) >= 3
  /\ ~(HullVertexSet(hull) \subseteq visibleLatticePoints)
  /\ HullVertexSet(hull) \cap visibleLatticePoints # {}
  /\ EdgePointSet(hull) \cap visibleLatticePoints # {}
  /\ InsideSet(visibleLatticePoints, hull) # {}
  /\ OutsideSet(visibleLatticePoints, hull) # {}

(* The statement of C9 as written: the union of the three sets and of the  *)
(* points of W outside the closure of H is W itself.                       *)
C9_UnionIsWindow ==
  (Built /\ Len(hull) >= 3) =>
    LET V == HullVertexSet(hull)
        E == EdgePointSet(hull)
        I == InsideSet(visibleLatticePoints, hull)
        O == OutsideSet(visibleLatticePoints, hull)
    IN  /\ V \cap E = {}
        /\ V \cap I = {}
        /\ E \cap I = {}
        /\ V \cup E \cup I \cup O = visibleLatticePoints

OnBoundary(p, h) == \E i \in 1..Len(h) : Between(p, h[i], h[(i % Len(h)) + 1])

StrictlyInside(p, h) == Len(h) >= 3 /\ InClosure(p, h) /\ ~OnBoundary(p, h)

(* C10: the face's interiorMonomials is the set of the keys of the window  *)
(* points strictly inside the hull; the face's vertexMonomials,            *)
(* edgeMonomials and interiorMonomials are pairwise disjoint; the key of a *)
(* window point that is a hull vertex or on a hull edge is not in          *)
(* interiorMonomials.                                                      *)
C10_FaceInterior ==
  Built =>
    \A i \in 1..Len(getAllFaces(registry)) :
      LET face == getAllFaces(registry)[i]
      IN  /\ face.interiorMonomials =
               {pointKey(p.x, p.y) :
                  p \in {q \in visibleLatticePoints : StrictlyInside(q, hull)}}
          /\ face.vertexMonomials \cap face.edgeMonomials = {}
          /\ face.vertexMonomials \cap face.interiorMonomials = {}
          /\ face.edgeMonomials \cap face.interiorMonomials = {}
          /\ \A q \in visibleLatticePoints :
               OnBoundary(q, hull) => pointKey(q.x, q.y) \notin face.interiorMonomials

C10_Witness ==
  /\ Built
  /\ Len(getAllFaces(registry)) = 1
  /\ Len(hull) = 4
  /\ getAllFaces(registry)[1].interiorMonomials = {pointKey(1, 1)}
  /\ getAllFaces(registry)[1].edgeMonomials # {}
  /\ HullVertexSet(hull) \subseteq visibleLatticePoints

(* The closure of the polygon h holds no lattice point outside W: for a    *)
(* rectangular window, its vertices are in W.                              *)
ClosureInWindow(h, W) == HullVertexSet(h) \subseteq W

(* C11: Pick's theorem for the face's counts, when the closure of the      *)
(* polytope is within the window: with I the number of interiorMonomials,  *)
(* B the number of vertexMonomials plus the number of edgeMonomials and 2A *)
(* twice the signed area of the hull, 2I = 2A - B + 2.                     *)
C11_Pick ==
  (Built /\ Len(hull) >= 3 /\ ClosureInWindow(hull, visibleLatticePoints)) =>
    \A i \in 1..Len(getAllFaces(registry)) :
      LET face == getAllFaces(registry)[i]
          I == Cardinality(face.interiorMonomials)
          B == Cardinality(face.vertexMonomials) + Cardinality(face.edgeMonomials)
      IN  2 * I = SignedArea2(hull) - B + 2

C11_Witness ==
  /\ Built
  /\ Len(hull) = 3
  /\ ClosureInWindow(hull, visibleLatticePoints)
  /\ Len(getAllFaces(registry)) = 1
  /\ Cardinality(getAllFaces(registry)[1].interiorMonomials) = 1
  /\ Cardinality(getAllFaces(registry)[1].edgeMonomials) = 1
  /\ SignedArea2(hull) = 4

min(a, b) == IF a <= b THEN a ELSE b

max(a, b) == IF a >= b THEN a ELSE b

(* The lattice points of the segment from a to b, without a and b. *)
SegmentInterior(a, b) ==
  {p \in {Point(px, py) : px \in min(a.x, b.x)..max(a.x, b.x),
                          py \in min(a.y, b.y)..max(a.y, b.y)} :
     Between(p, a, b) /\ ~SamePoint(p, a) /\ ~SamePoint(p, b)}

(* C12: the edge stratum of the hull pair (v1, v2) has as edgeMonomials    *)
(* the keys of the lattice points strictly between v1 and v2, which are    *)
(* gcd(|dx|, |dy|) - 1 in number; every point of edgePointsOfPolygon(hull) *)
(* is in the edgeMonomials of exactly one edge stratum; no hull vertex's   *)
(* key is in any edgeMonomials.                                            *)
C12_EdgeMonomials ==
  (Built /\ Len(hull) >= 3) =>
    LET edges == getAllEdges(registry)
    IN  /\ \A k \in 1..Len(hull) :
             LET v1 == hull[k]
                 v2 == hull[(k % Len(hull)) + 1]
             IN  /\ \E i \in 1..Len(edges) : edges[i].id = edgeId(v1, v2)
                 /\ \A i \in 1..Len(edges) :
                      edges[i].id = edgeId(v1, v2) =>
                        /\ edges[i].edgeMonomials =
                             {pointKey(p.x, p.y) : p \in SegmentInterior(v1, v2)}
                        /\ Cardinality(edges[i].edgeMonomials)
                             = gcd(abs(v2.x - v1.x), abs(v2.y - v1.y)) - 1
        /\ \A p \in Range(edgePointsOfPolygon(hull)) :
             Cardinality({i \in 1..Len(edges) :
                            pointKey(p.x, p.y) \in edges[i].edgeMonomials}) = 1
        /\ \A k \in 1..Len(hull) : \A i \in 1..Len(edges) :
             pointKey(hull[k].x, hull[k].y) \notin edges[i].edgeMonomials

C12_Witness ==
  /\ Built
  /\ Len(hull) = 3
  /\ Len(getAllEdges(registry)) = 3
  /\ \A i \in 1..3 : Cardinality(getAllEdges(registry)[i].edgeMonomials) = 1

(* C13: the edge stratum of the hull pair (v1, v2) has vertices = the two  *)
(* endpoint vertex ids, substrata = those two ids, vertexMonomials = the   *)
(* two endpoint keys; both endpoint vertex strata have the edge's id in    *)
(* their superstrata; every vertex stratum is in the substrata of exactly  *)
(* two edges.                                                              *)
C13_EdgeEndpoints ==
  (Built /\ Len(hull) >= 3) =>
    LET edges == getAllEdges(registry)
        vertices == getAllVertices(registry)
    IN  /\ \A k \in 1..Len(hull) :
             LET v1 == hull[k]
                 v2 == hull[(k % Len(hull)) + 1]
             IN  /\ \E i \in 1..Len(edges) : edges[i].id = edgeId(v1, v2)
                 /\ \A i \in 1..Len(edges) :
                      edges[i].id = edgeId(v1, v2) =>
                        /\ edges[i].vertices = <<vertexId(v1), vertexId(v2)>>
                        /\ edges[i].substrata = {vertexId(v1), vertexId(v2)}
                        /\ edges[i].vertexMonomials =
                             {pointKey(v1.x, v1.y), pointKey(v2.x, v2.y)}
                 /\ \A j \in 1..Len(vertices) :
                      vertices[j].id \in {vertexId(v1), vertexId(v2)} =>
                        edgeId(v1, v2) \in vertices[j].superstrata
        /\ \A j \in 1..Len(vertices) :
             Cardinality({i \in 1..Len(edges) : vertices[j].id \in edges[i].substrata}) = 2

C13_Witness ==
  /\ Built
  /\ Len(hull) = 4
  /\ Len(getAllVertices(registry)) = 4
  /\ getAllEdges(registry)[4].vertices = <<vertexId(hull[4]), vertexId(hull[1])>>
  /\ \A j \in 1..4 :
       Cardinality({i \in 1..4 : getAllVertices(registry)[j].id
                                   \in getAllEdges(registry)[i].substrata}) = 2

AllStrata(r) == Range(r.vertices) \cup Range(r.edges) \cup Range(r.faces)

(* C14: containment between the face and every edge and every vertex is    *)
(* wired both ways: the face's substrata holds every edge id and every     *)
(* vertex id, every edge's and every vertex's superstrata holds the face   *)
(* id; for any two strata a, b: b.id is in a.substrata exactly when a.id   *)
(* is in b.superstrata.                                                    *)
C14_WiredBothWays ==
  Built =>
    \A f \in 1..Len(getAllFaces(registry)) :
      LET face == getAllFaces(registry)[f]
      IN  /\ \A e \in Range(getAllEdges(registry)) :
               e.id \in face.substrata /\ face.id \in e.superstrata
          /\ \A v \in Range(getAllVertices(registry)) :
               v.id \in face.substrata /\ face.id \in v.superstrata
          /\ \A a \in AllStrata(registry) : \A b \in AllStrata(registry) :
               (b.id \in a.substrata) <=> (a.id \in b.superstrata)

(* C15: every id in a stratum's substrata or superstrata resolves through  *)
(* getStratum to a stratum of the same registry; getSubstrata(id) and      *)
(* getSuperstrata(id) return as many strata as the id sets hold.           *)
C15_NoOrphans ==
  Built =>
    \A a \in AllStrata(registry) :
      /\ \A id \in a.substrata \cup a.superstrata :
           /\ getStratum(registry, id) # Undefined
           /\ getStratum(registry, id) \in AllStrata(registry)
           /\ getStratum(registry, id).id = id
      /\ Len(getSubstrata(registry, a.id)) = Cardinality(a.substrata)
      /\ Len(getSuperstrata(registry, a.id)) = Cardinality(a.superstrata)

C15_Witness ==
  /\ Built
  /\ Len(hull) = 4
  /\ Len(getSubstrata(registry, FaceId)) = 4
  /\ Len(getSuperstrata(registry, vertexId(hull[1]))) = 3
  /\ Len(getSubstrata(registry, edgeId(hull[4], hull[1]))) = 2

DimensionOf(r, id) == getStratum(r, id).dimension

(* C16: every id in a stratum's substrata names a stratum of the registry  *)
(* of dimension exactly one lower; every id in its superstrata names a     *)
(* stratum of higher dimension: exactly one higher, or, in a vertex's      *)
(* superstrata, the face.                                                  *)
C16_LowerAndHigher ==
  Built =>
    \A a \in AllStrata(registry) :
      /\ \A id \in a.substrata :
           /\ getStratum(registry, id) # Undefined
           /\ DimensionOf(registry, id) = a.dimension - 1
      /\ \A id \in a.superstrata :
           /\ getStratum(registry, id) # Undefined
           /\ \/ DimensionOf(registry, id) = a.dimension + 1
              \/ a.dimension = 0 /\ id = FaceId /\ DimensionOf(registry, id) = 2

C16_Witness ==
  /\ Built
  /\ Len(hull) = 3
  /\ \A v \in Range(getAllVertices(registry)) :
       /\ FaceId \in v.superstrata
       /\ Cardinality({id \in v.superstrata : DimensionOf(registry, id) = 1}) = 2
  /\ \A e \in Range(getAllEdges(registry)) : e.superstrata = {FaceId}

(* The statement of C16 as written: links join adjacent dimensions only. *)
C16_AdjacentOnly ==
  Built =>
    \A a \in AllStrata(registry) :
      /\ \A id \in a.substrata :
           /\ getStratum(registry, id) # Undefined
           /\ DimensionOf(registry, id) = a.dimension - 1
      /\ \A id \in a.superstrata :
           /\ getStratum(registry, id) # Undefined
           /\ DimensionOf(registry, id) = a.dimension + 1

(* C17: for distinct a, b the normal n of computePrimitiveNormal(a, b) is  *)
(* perpendicular to b - a, a positive multiple of it is (dy, -dx), and no  *)
(* integer above 1 divides both components; for a = b it is the zero       *)
(* vector; the four edges of the square (0,0), (2,0), (2,2), (0,2) have    *)
(* the four unit vectors as normals.                                       *)
C17_PrimitiveNormal ==
  (pc = "normal") =>
    LET a == geometryCall.v1
        b == geometryCall.v2
        n == geometryCall.normal
        dx == b.x - a.x
        dy == b.y - a.y
    IN  /\ (a # b) =>
             /\ n.x * dx + n.y * dy = 0
             /\ \E k \in 1..(2 * MaxCoord + 2) : k * n.x = dy /\ k * n.y = -dx
             /\ \A d \in 2..(2 * MaxCoord + 2) : ~(n.x % d = 0 /\ n.y % d = 0)
        /\ (a = b) => n = Point(0, 0)
        /\ (a = Point(0, 0) /\ b = Point(2, 0)) => n = Point(0, -1)
        /\ (a = Point(2, 0) /\ b = Point(2, 2)) => n = Point(1, 0)
        /\ (a = Point(2, 2) /\ b = Point(0, 2)) => n = Point(0, 1)
        /\ (a = Point(0, 2) /\ b = Point(0, 0)) => n = Point(-1, 0)

C17_Witness ==
  /\ pc = "normal"
  /\ geometryCall.v1 = Point(-3, 1)
  /\ geometryCall.v2 = Point(3, -2)
  /\ geometryCall.normal = Point(-1, -2)

AllIds(r) == {st.id : st \in AllStrata(r)}

(* C18: r' = fromJSON(r.toJSON()) has the same getTotalCount(), the same   *)
(* ids in each dimension, for every id the same stratum (dimension,        *)
(* payload, monomial sets, substrata, superstrata), and getStratum,        *)
(* getSubstrata and getSuperstrata return equal results on r and r'.       *)
C18_RoundTrip ==
  [][(pc = "built" /\ pc' = "restored") =>
       /\ getTotalCount(registry') = getTotalCount(registry)
       /\ Ids(getAllVertices(registry')) = Ids(getAllVertices(registry))
       /\ Ids(getAllEdges(registry')) = Ids(getAllEdges(registry))
       /\ Ids(getAllFaces(registry')) = Ids(getAllFaces(registry))
       /\ getAllVertices(registry') = getAllVertices(registry)
       /\ getAllEdges(registry') = getAllEdges(registry)
       /\ getAllFaces(registry') = getAllFaces(registry)
       /\ \A id \in AllIds(registry) \cup {<<"v", "_", "x">>} :
            /\ getStratum(registry', id) = getStratum(registry, id)
            /\ getSubstrata(registry', id) = getSubstrata(registry, id)
            /\ getSuperstrata(registry', id) = getSuperstrata(registry, id)]_vars

C18_Witness ==
  /\ pc = "restored"
  /\ Len(hull) = 4
  /\ getTotalCount(registry) = 9
  /\ getAllFaces(registry)[1].interiorMonomials # {}
  /\ getAllEdges(registry)[1].edgeMonomials # {}

(* The ids held in containment sets of r that name no stratum of r. *)
DanglingIds(r) ==
  {id \in UNION {a.substrata \cup a.superstrata : a \in AllStrata(r)} : id \notin AllIds(r)}

(* C19: in a registry with containment ids that name no stratum,           *)
(* getSubstrata and getSuperstrata return exactly the strata whose ids     *)
(* resolve, leaving out the others; for an id that is not in the registry  *)
(* they return the empty list.                                             *)
C19_DanglingDropped ==
  (pc = "loaded") =>
    /\ \A a \in AllStrata(registry) :
         /\ Range(getSubstrata(registry, a.id))
              = {b \in AllStrata(registry) : b.id \in a.substrata}
         /\ Len(getSubstrata(registry, a.id))
              = Cardinality(a.substrata \cap AllIds(registry))
         /\ Range(getSuperstrata(registry, a.id))
              = {b \in AllStrata(registry) : b.id \in a.superstrata}
         /\ Len(getSuperstrata(registry, a.id))
              = Cardinality(a.superstrata \cap AllIds(registry))
    /\ \A id \in DanglingIds(registry) \cup {<<"v", "_", "x">>} :
         /\ getSubstrata(registry, id) = <<>>
         /\ getSuperstrata(registry, id) = <<>>

C19_Witness ==
  /\ pc = "loaded"
  /\ Len(getAllVertices(registry)) = 3
  /\ Len(getAllEdges(registry)) = 4
  /\ \E e \in Range(getAllEdges(registry)) :
       /\ Cardinality(e.substrata) = 2
       /\ Len(getSubstrata(registry, e.id)) = 1
  /\ DanglingIds(registry) # {}

(* C20: for v1 # v2 and a reference point m, the multiplicity is           *)
(* |n . (m - v1)| with n the primitive normal of the edge, it is a         *)
(* non-negative integer, and it is 0 exactly when m is on the line through *)
(* v1 and v2.                                                              *)
C20_MultiplicityZeroLaw ==
  (pc = "multiplicity") =>
    LET v1 == geometryCall.v1
        v2 == geometryCall.v2
        m == geometryCall.monomial
        n == computePrimitiveNormal(v1, v2)
        d == n.x * (m.x - v1.x) + n.y * (m.y - v1.y)
    IN  (v1 # v2) =>
          /\ geometryCall.multiplicity = (IF d < 0 THEN -d ELSE d)
          /\ geometryCall.multiplicity \in Nat
          /\ (geometryCall.multiplicity = 0) <=> (crossProduct(v1, v2, m) = 0)

C20_Witness ==
  /\ pc = "multiplicity"
  /\ geometryCall.v1 = Point(0, 0)
  /\ geometryCall.v2 = Point(2, 2)
  /\ geometryCall.monomial = Point(-1, 2)
  /\ geometryCall.multiplicity = 3

(* C21: for all points v1, v2, m the multiplicity computed from (v1, v2)   *)
(* equals the one computed from (v2, v1).                                  *)
C21_MultiplicitySymmetric ==
  (pc = "multiplicity") =>
    geometryCall.multiplicity
      = calculateEdgeMultiplicity(geometryCall.v2, geometryCall.v1, geometryCall.monomial)

C21_Witness ==
  /\ pc = "multiplicity"
  /\ geometryCall.v1 = Point(1, -2)
  /\ geometryCall.v2 = Point(-3, 0)
  /\ geometryCall.monomial = Point(2, 3)
  /\ geometryCall.multiplicity = 11
  /\ calculateEdgeMultiplicity(geometryCall.v2, geometryCall.v1, geometryCall.monomial) = 11

Lookup == pc = "lookup"

LookupClick == [x |-> geometryCall.canvasX, y |-> geometryCall.canvasY]

WithinThreshold(distance) == lessThan(distance, wholeDistance(getSelectionThreshold))

VertexDistance(v) == canvasDistance(LookupClick, latticeToCanvas(v.point.x, v.point.y))

EdgeDistance(e) ==
  LET v1 == getVertex(registry, e.vertices[1]).point
      v2 == getVertex(registry, e.vertices[2]).point
  IN  distanceToSegment(LookupClick, latticeToCanvas(v1.x, v1.y), latticeToCanvas(v2.x, v2.y))

VerticesWithin == {v \in Range(registry.vertices) : WithinThreshold(VertexDistance(v))}

EdgesWithin == {e \in Range(registry.edges) : WithinThreshold(EdgeDistance(e))}

(* The position itself, in canvas coordinates, is inside or on the polygon *)
(* of the hull drawn on the canvas (whose orientation the flipped y axis   *)
(* reverses).                                                              *)
PositionInPolygon ==
  LET polygon == [i \in 1..Len(hull) |-> latticeToCanvas(hull[i].x, hull[i].y)]
      side(i) == crossProduct(polygon[i], polygon[(i % Len(hull)) + 1], LookupClick)
  IN  /\ Len(registry.faces) > 0
      /\ \/ \A i \in 1..Len(hull) : side(i) >= 0
         \/ \A i \in 1..Len(hull) : side(i) <= 0

(* C22: findStratumAtPosition returns the id of a closest vertex whenever  *)
(* some vertex is within the threshold distance; the id of a closest edge  *)
(* when no vertex is within the threshold and some edge segment is; the    *)
(* face id when neither is and the position falls inside the polygon; and  *)
(* null otherwise.                                                         *)
C22_LookupPriority ==
  Lookup =>
    IF VerticesWithin # {}
    THEN \E v \in VerticesWithin :
           /\ geometryCall.stratumId = v.id
           /\ \A u \in Range(registry.vertices) :
                ~lessThan(VertexDistance(u), VertexDistance(v))
    ELSE IF EdgesWithin # {}
    THEN \E e \in EdgesWithin :
           /\ geometryCall.stratumId = e.id
           /\ \A f \in Range(registry.edges) :
                ~lessThan(EdgeDistance(f), EdgeDistance(e))
    ELSE IF PositionInPolygon
    THEN geometryCall.stratumId = registry.faces[1].id
    ELSE geometryCall.stratumId = Null

(* C23: in every built registry the face stratum has hullVertices equal to *)
(* the vertex ids of the hull in the hull's counter-clockwise order,       *)
(* vertexMonomials equal to the keys of all hull points, and edgeMonomials *)
(* equal to the keys of the points of edgePointsOfPolygon(hull), which are *)
(* the lattice points strictly between consecutive hull vertices and the   *)
(* union of the edgeMonomials of all edge strata.                          *)
C23_FaceStratum ==
  (Built /\ Len(getAllFaces(registry)) > 0) =>
    LET face == getAllFaces(registry)[1]
        edges == getAllEdges(registry)
    IN  /\ Len(hull) >= 3
        /\ SignedArea2(hull) > 0
        /\ face.hullVertices = [i \in 1..Len(hull) |-> vertexId(hull[i])]
        /\ \A i \in 1..Len(hull) :
             /\ getVertex(registry, face.hullVertices[i]) # Undefined
             /\ SamePoint(getVertex(registry, face.hullVertices[i]).point, hull[i])
        /\ face.vertexMonomials = {pointKey(p.x, p.y) : p \in Range(hull)}
        /\ Cardinality(face.vertexMonomials) = Len(hull)
        /\ face.edgeMonomials
             = {pointKey(p.x, p.y) : p \in Range(edgePointsOfPolygon(hull))}
        /\ face.edgeMonomials
             = UNION {{pointKey(p.x, p.y) : p \in SegmentInterior(pair[1], pair[2])} :
                        pair \in CyclicPairs(hull)}
        /\ face.edgeMonomials
             = UNION {edges[i].edgeMonomials : i \in 1..Len(edges)}

C23_Witness ==
  /\ Built
  /\ Len(getAllFaces(registry)) = 1
  /\ getAllFaces(registry)[1].hullVertices
       = <<vertexId(Point(0, 0)), vertexId(Point(2, 0)), vertexId(Point(2, 2)),
           vertexId(Point(0, 2))>>
  /\ getAllFaces(registry)[1].edgeMonomials
       = {pointKey(1, 0), pointKey(2, 1), pointKey(1, 2), pointKey(0, 1)}

(* The addresses of the objects of the registry at ref: the registry       *)
(* object and its strata.                                                  *)
ObjectsOf(h, ref) ==
  {ref} \cup Range(h[ref].vertices) \cup Range(h[ref].edges) \cup Range(h[ref].faces)

(* C24: each call of the builder returns a registry none of whose objects  *)
(* belongs to the registry returned before; building the second registry   *)
(* and changing it with addVertex, addEdge, addFace, clear or              *)
(* updateMonomials leaves the first registry, its strata and so the result *)
(* of every query on it unchanged.                                         *)
C24_FreshRegistry ==
  [][/\ (Len(results) = 1 /\ Len(results') = 2) =>
          ObjectsOf(heap', results'[2]) \cap ObjectsOf(heap', results'[1]) = {}
     /\ Len(results) >= 1 =>
          /\ results'[1] = results[1]
          /\ heap'[results[1]] = heap[results[1]]
          /\ derefRegistry(heap', results[1]) = derefRegistry(heap, results[1])]_vars

C24_Witness ==
  /\ pc = "mutated"
  /\ getTotalCount(derefRegistry(heap, results[1])) = 7
  /\ getTotalCount(derefRegistry(heap, results[2])) = 0
  /\ Len(selectedPoints) = 3

(* C25: in every registry the builder returns, each vertex stratum has     *)
(* vertexMonomials = {the key of its own point}, empty edgeMonomials and   *)
(* interiorMonomials, empty substrata, and as superstrata exactly three    *)
(* ids: those of its two incident edge strata and that of the face.        *)
C25_VertexStrata ==
  Built =>
    LET vertices == getAllVertices(registry)
        n == Len(vertices)
    IN  \A k \in 1..n :
          LET v == vertices[k]
              before == vertices[((k + n - 2) % n) + 1].point
              after == vertices[(k % n) + 1].point
          IN  /\ v.dimension = 0
              /\ v.id = vertexId(v.point)
              /\ v.vertexMonomials = {pointKey(v.point.x, v.point.y)}
              /\ v.edgeMonomials = {}
              /\ v.interiorMonomials = {}
              /\ v.substrata = {}
              /\ v.superstrata
                   = {edgeId(before, v.point), edgeId(v.point, after), FaceId}
              /\ Cardinality(v.superstrata) = 3
              /\ \A id \in v.superstrata \ {FaceId} :
                   /\ mapLookup(getAllEdges(registry), id) # Undefined
                   /\ v.id \in Range(mapLookup(getAllEdges(registry), id).vertices)
              /\ mapLookup(getAllFaces(registry), FaceId) # Undefined

C25_Witness ==
  /\ Built
  /\ Len(getAllVertices(registry)) = 4
  /\ \E k \in 1..4 :
       /\ getAllVertices(registry)[k].id = vertexId(Point(2, 1))
       /\ getAllVertices(registry)[k].superstrata
            = {edgeId(Point(0, 0), Point(2, 1)), edgeId(Point(2, 1), Point(1, 2)), FaceId}

(* A registry without the interiorMonomials of its faces. *)
ExceptFaceInterior(r) ==
  [r EXCEPT !.faces = [i \in 1..Len(r.faces) |-> [r.faces[i] EXCEPT !.interiorMonomials = {}]]]

(* C26: after updateMonomials(r, W2) on a registry r built from the points *)
(* P with a window W1, the face's interiorMonomials equals that of the     *)
(* registry built from P with W2, whatever W1 was, and the ids, payloads,  *)
(* containment sets and vertex and edge monomial sets of all strata of r   *)
(* are unchanged; on an empty registry the call changes nothing.           *)
C26_UpdateAgreesWithRebuild ==
  [][pc' = "updated" =>
       /\ registry' = createStratificationFromPolytope(selectedPoints, visibleLatticePoints')
       /\ ExceptFaceInterior(registry') = ExceptFaceInterior(registry)
       /\ getTotalCount(registry) = 0 => registry' = registry
       /\ \A i \in 1..Len(getAllFaces(registry')) :
            getAllFaces(registry')[i].interiorMonomials
              = {pointKey(p.x, p.y) : p \in {q \in visibleLatticePoints' : StrictlyInside(q, hull)}}]_vars

C26_Witness ==
  /\ pc = "updated"
  /\ Len(getAllFaces(registry)) = 1
  /\ getAllFaces(registry)[1].interiorMonomials = {pointKey(1, 1)}
  /\ Point(0, 1) \notin visibleLatticePoints
  /\ Len(hull) = 4

(* C27: in every built registry, for each edge stratum with endpoints      *)
(* (v1, v2) in hull order and every hull vertex w other than v1 and v2,    *)
(* primitiveNormal . (w - v1) < 0: the normal points out of the polytope,  *)
(* whichever endpoint the edge id names first.                             *)
C27_NormalPointsOutward ==
  Built =>
    \A k \in 1..Len(getAllEdges(registry)) :
      LET edge == getAllEdges(registry)[k]
          v1 == hull[k]
          v2 == hull[(k % Len(hull)) + 1]
      IN  /\ edge.vertices = <<vertexId(v1), vertexId(v2)>>
          /\ SamePoint(getVertex(registry, edge.vertices[1]).point, v1)
          /\ SamePoint(getVertex(registry, edge.vertices[2]).point, v2)
          /\ \A i \in 1..Len(hull) :
               (~SamePoint(hull[i], v1) /\ ~SamePoint(hull[i], v2)) =>
                 edge.primitiveNormal.x * (hull[i].x - v1.x)
                   + edge.primitiveNormal.y * (hull[i].y - v1.y) < 0

C27_Witness ==
  /\ Built
  /\ \E k \in 1..Len(getAllEdges(registry)) :
       LET edge == getAllEdges(registry)[k]
       IN  /\ edge.vertices = <<vertexId(Point(0, 2)), vertexId(Point(0, 0))>>
           /\ edge.id = edgeId(Point(0, 0), Point(0, 2))
           /\ edge.primitiveNormal = Point(-1, 0)
           /\ Len(hull) = 4

(* The selection has changed and the effect has not run on it yet. *)
EffectPending == pc \in {"clicked", "removed"}

(* The points of the selection. *)
SelectionPoints == {parseKey(key) : key \in Range(selection)}

(* p is strictly inside the convex hull of the set S of points, or         *)
(* strictly between two points of S: it is not a vertex of the hull of S.  *)
NotAVertexOf(p, S) ==
  \/ \E a \in S, b \in S :
       ~SamePoint(a, b) /\ ~SamePoint(p, a) /\ ~SamePoint(p, b) /\ Between(p, a, b)
  \/ \E a \in S, b \in S, c \in S :
       /\ crossProduct(a, b, c) > 0
       /\ crossProduct(a, b, p) >= 0
       /\ crossProduct(b, c, p) >= 0
       /\ crossProduct(c, a, p) >= 0
       /\ ~SamePoint(p, a) /\ ~SamePoint(p, b) /\ ~SamePoint(p, c)

(* C28: the interior-removal effect only removes points from the           *)
(* selection; after every click it stops running after finitely many       *)
(* steps; and when it has stopped with 3 or more points selected, every    *)
(* selected point is a vertex of the convex hull of the selection: none is *)
(* strictly inside the hull or in the interior of a hull edge.             *)
C28_SelectionNormalises ==
  /\ [][EffectPending =>
          /\ Range(selection') \subseteq Range(selection)
          /\ selection' = SelectSeq(selection, LAMBDA key : key \in Range(selection'))]_vars
  /\ EffectPending ~> (pc = "input")
  /\ []((pc = "input" /\ Len(selection) >= 3) =>
          /\ \A p \in SelectionPoints : ~NotAVertexOf(p, SelectionPoints)
          /\ {pointKey(p.x, p.y) : p \in Range(convexHull(getSelectedPointsArray(selection)))}
               = Range(selection))

C28_Witness ==
  /\ pc = "removed"
  /\ selection = <<pointKey(0, 0), pointKey(2, 0), pointKey(1, 2)>>

(* The hull of the selection the investigator works on. *)
SelectionHull == convexHull(getSelectedPointsArray(selection))

(* C29: for an investigator point p that is a hull vertex, an edge lattice *)
(* point or an interior lattice point of a polytope with 3 or more hull    *)
(* vertices, the highlighted edges are exactly the hull edges whose        *)
(* segment does not contain p, and each has a multiplicity of 1 or more,   *)
(* which is drawn.                                                         *)
C29_HighlightedEdges ==
  (/\ pc = "investigated"
   /\ geometryCall.selectedInvestigatorPoint # Null
   /\ Len(SelectionHull) >= 3) =>
    LET p == geometryCall.selectedInvestigatorPoint
        edges == geometryCall.highlightedEdges
    IN  /\ InClosure(p, SelectionHull)
        /\ Range(edges) = {pair \in CyclicPairs(SelectionHull) : ~Between(p, pair[1], pair[2])}
        /\ \A i, j \in 1..Len(edges) : edges[i] = edges[j] => i = j
        /\ \A i \in 1..Len(edges) :
             /\ entryHas(geometryCall.edgeMultiplicities, edgeKey(edges[i][1], edges[i][2]))
             /\ entryGet(geometryCall.edgeMultiplicities, edgeKey(edges[i][1], edges[i][2]))
                  = calculateEdgeMultiplicity(edges[i][1], edges[i][2], p)
             /\ calculateEdgeMultiplicity(edges[i][1], edges[i][2], p) >= 1
             /\ multiplicityShown(geometryCall.edgeMultiplicities, edges[i][1], edges[i][2])

C29_Witness ==
  /\ pc = "investigated"
  /\ selection = <<pointKey(0, 0), pointKey(2, 0), pointKey(0, 2)>>
  /\ geometryCall.selectedInvestigatorPoint = Point(1, 0)
  /\ Len(geometryCall.highlightedEdges) = 2
  /\ geometryCall.edgeMultiplicities
       = <<[key |-> edgeKey(Point(2, 0), Point(0, 2)), value |-> 1],
           [key |-> edgeKey(Point(0, 2), Point(0, 0)), value |-> 1]>>

(* C30: for the vertex, edge and face counts of a registry,                *)
(* buildPolytopeAttributes reports strata.count = vertices + edges + faces *)
(* = getTotalCount(), and so 0 strata for the empty registry.              *)
C30_StrataCountAgrees ==
  (pc = "attributes") =>
    /\ geometryCall.attributes.strata.count
         = geometryCall.stats.vertices + geometryCall.stats.edges + geometryCall.stats.faces
    /\ geometryCall.attributes.strata.count = getTotalCount(registry)
    /\ getTotalCount(registry) = 0 => geometryCall.attributes.strata.count = 0

====
